---------------------------- MODULE Spec2Model ----------------------------
(***************************************************************************)
(* AEON: the simulation clock (code/simulation_engine.py) and the          *)
(* infrastructure maintenance scheduler (code/modules/infrastructure.py,   *)
(* and its colony twin code/modules/maintenance.py).                       *)
(*                                                                         *)
(* Numbers.  Python floats are modelled as exact rationals with a fixed    *)
(* denominator (rounding is not modelled):                                 *)
(*   - real time (time.time()) is an integer number of hours;              *)
(*   - time_scale is kept in ten-thousandths (ScaleUnit), so 0.0001 is 1,  *)
(*     0.1 is 1000 and 100.0 is 1000000;                                   *)
(*   - a day number is kept as its numerator over DayDen = ScaleUnit *     *)
(*     day_duration: current_day = elapsed_hours * time_scale;             *)
(*   - scheduler ticks are integers, one tick being 1000 days, and a       *)
(*     component's degradation_rate is in health points per tick (0.05 per *)
(*     day is 50 per tick);                                                *)
(*   - health is an integer number of health points.                       *)
(***************************************************************************)
EXTENDS Integers, Sequences, FiniteSets, TLC

VARIABLES
    \* ---- SimulationClock ----
    now,              \* time.time()
    time_scale,       \* self.time_scale, in tenths
    current_day,      \* self.current_day (the cached last computed day)
    start_time,       \* self.start_time
    paused,           \* self.paused
    pause_time,       \* self.pause_time
    \* ---- history of the clock (not program state) ----
    last_read,        \* value returned by the latest get_current_day(), NoRead if none
    last_read_at,     \* real time of the latest get_current_day()
    frozen_read,      \* value returned by the first get_current_day() of the current pause
    pause_reads,      \* get_current_day() calls in the current pause (counted up to 2)
    ever_paused,      \* pause() has taken effect at least once
    paused_total,     \* real time spent paused so far, over all cycles
    clock_call,       \* the latest call of a clock method
    \* ---- InfrastructureManagement / MaintenanceAndRepairs ----
    infrastructure,   \* self.infrastructure: key -> component record
    maintenance_queue,\* self.maintenance_queue
    last_update_day,  \* self.last_update_day
    \* ---- history of the scheduler (not program state) ----
    call,             \* the latest scheduler call: its name (and update's tick)
    ret,              \* value returned by the latest scheduler call
    report,           \* the status_report the latest scheduler call returned, if any
    anomalies,        \* self.anomalies: the list the latest diagnose_anomalies stored
    \* ---- EventGenerator / SimulationEngine ----
    last_check_day,   \* event_generator.last_check_day
    events,           \* self.events: the event log
    callbacks,        \* self.callbacks: name -> list of callbacks
    last_day,         \* self._last_day (0 while the attribute is unset)
    \* ---- history of the engine (not program state) ----
    ecall,            \* the latest engine call
    new_events,       \* the list the latest engine call returned
    dispatched,       \* the callback invocations of the latest engine call, in order
    \* ---- CitizenWellbeing / AEONMunicipalSimulator ----
    satisfaction_scores,  \* self.satisfaction_scores: citizen -> score
    public_sentiment,     \* self.public_sentiment
    current_state,        \* the fields of self.current_state that _update_state assigns
    \* ---- AdministratorOversight ----
    oversight_mode,   \* self.oversight_mode
    alerts,           \* self.alerts
    \* ---- AEONMunicipalSimulator.start ----
    running,          \* self.running
    started,          \* what start() has started so far: engine, module threads, update loop
    \* ---- MunicipalGovernance ----
    proposals,        \* self.proposals, in order of creation
    voting_history,   \* self.voting_history
    active_policies,  \* self.active_policies, the titles in policy order
    \* ---- threads ----
    lock,             \* threading.Lock objects: lock name -> the thread holding it, or "none"
    stack,            \* thread -> its call stack of frames, innermost first
    \* ---- history of the threads (not program state) ----
    race0             \* the scheduler's state when the racing calls were made

clockVars == <<now, time_scale, current_day, start_time, paused, pause_time,
               last_read, last_read_at, frozen_read, pause_reads, ever_paused, paused_total,
               clock_call>>
schedVars == <<infrastructure, maintenance_queue, last_update_day, call, ret, report,
               anomalies>>
vars == <<now, time_scale, current_day, start_time, paused, pause_time,
          last_read, last_read_at, frozen_read, pause_reads, ever_paused, paused_total,
          clock_call,
          infrastructure, maintenance_queue, last_update_day, call, ret, report, anomalies,
          last_check_day, events, callbacks, last_day, ecall, new_events, dispatched,
          satisfaction_scores, public_sentiment, current_state, lock, stack, race0,
          oversight_mode, alerts, running, started, proposals, voting_history, active_policies>>
moduleVars == <<oversight_mode, alerts, running, started, proposals, voting_history, active_policies>>
threadVars == <<satisfaction_scores, public_sentiment, current_state, lock, stack, race0,
                moduleVars>>
engineVars == <<last_check_day, events, callbacks, last_day, ecall, new_events, dispatched>>

Max(a, b) == IF a >= b THEN a ELSE b
Min(a, b) == IF a <= b THEN a ELSE b

(***************************************************************************)
(* Bounds of the model.                                                    *)
(***************************************************************************)
MaxNow == 4          \* real time runs from start_time to start_time + MaxNow
MaxTick == 2         \* scheduler ticks are drawn from 0..MaxTick
MaxOverSteps == 1    \* health may exceed 100 by at most MaxOverSteps * 10 points

(***************************************************************************)
(* SimulationClock                                                         *)
(***************************************************************************)
ScaleUnit == 10000   \* time_scale 1.0
MinScale == 1000     \* 0.1
MaxScale == 1000000  \* 100.0
\* day_duration_hours * 3600 seconds, in hours (day_duration_hours = 24)
day_duration == 24
\* the denominator of a day number
DayDen == ScaleUnit * day_duration
NoRead == 0 - 1

\* time_scale values a configuration supplies to the constructor (1.0, 10.0)
InitScales == {10000, 100000}
\* arguments of set_time_scale: 0.0001, 0.5, 1.0, 1000.0
ScaleInputs == {1, 5000, 10000, 10000000}
\* time.time() at construction
StartTimes == {0, 7}

\* max(0.1, min(scale, 100.0))
ClampScaleBelowOnly(scale) == Max(MinScale, scale)
ClampScale(scale) == Max(MinScale, Min(scale, MaxScale))

\* elapsed_real_time * self.time_scale (over self.day_duration: the numerator)
ComputeDay == (now - start_time - pause_time) * time_scale

\* the value get_current_day() returns in the current state
\* (DayReadIgnoringPaused: without the early return for a paused clock)
DayReadIgnoringPaused == ComputeDay
DayRead == IF paused THEN current_day ELSE ComputeDay

ClockInit ==
    /\ start_time \in StartTimes
    /\ now = start_time
    /\ time_scale \in InitScales
    /\ current_day = 0
    /\ paused = FALSE
    /\ pause_time = 0
    /\ last_read = NoRead
    /\ last_read_at = start_time
    /\ frozen_read = NoRead
    /\ pause_reads = 0
    /\ ever_paused = FALSE
    /\ paused_total = 0
    /\ clock_call = "init"

\* real time passes
TimePasses ==
    /\ now - start_time < MaxNow
    /\ now' = now + 1
    /\ paused_total' = IF paused THEN paused_total + 1 ELSE paused_total
    /\ UNCHANGED <<time_scale, current_day, start_time, paused, pause_time,
                   last_read, last_read_at, frozen_read, pause_reads, ever_paused,
                   clock_call>>
    /\ UNCHANGED schedVars
    /\ UNCHANGED engineVars
    /\ UNCHANGED threadVars

\* get_current_day(): its effect on the clock
ClockRead ==
    /\ current_day' = DayRead
    /\ last_read' = DayRead
    /\ last_read_at' = now
    /\ frozen_read' = IF paused /\ pause_reads = 0 THEN DayRead ELSE frozen_read
    /\ pause_reads' = IF paused THEN Min(2, pause_reads + 1) ELSE pause_reads
    /\ clock_call' = "get_current_day"
    /\ UNCHANGED <<now, time_scale, start_time, paused, pause_time,
                   ever_paused, paused_total>>

GetCurrentDay ==
    /\ ClockRead
    /\ UNCHANGED schedVars
    /\ UNCHANGED engineVars
    /\ UNCHANGED threadVars

PauseUnguarded ==
    /\ paused' = TRUE
    /\ pause_time' = now
    /\ ever_paused' = TRUE
    /\ frozen_read' = NoRead
    /\ pause_reads' = 0
    /\ clock_call' = "pause"
    /\ UNCHANGED <<now, time_scale, current_day, start_time, last_read, last_read_at,
                   paused_total>>
    /\ UNCHANGED schedVars
    /\ UNCHANGED engineVars
    /\ UNCHANGED threadVars

Pause ==
    /\ IF ~paused
       THEN /\ paused' = TRUE
            /\ pause_time' = now
            /\ ever_paused' = TRUE
            /\ frozen_read' = NoRead
            /\ pause_reads' = 0
       ELSE UNCHANGED <<paused, pause_time, ever_paused, frozen_read, pause_reads>>
    /\ clock_call' = "pause"
    /\ UNCHANGED <<now, time_scale, current_day, start_time, last_read, last_read_at,
                   paused_total>>
    /\ UNCHANGED schedVars
    /\ UNCHANGED engineVars
    /\ UNCHANGED threadVars

Resume ==
    /\ IF paused
       THEN /\ pause_time' = now - pause_time
            /\ paused' = FALSE
            /\ frozen_read' = NoRead
            /\ pause_reads' = 0
       ELSE UNCHANGED <<paused, pause_time, frozen_read, pause_reads>>
    /\ clock_call' = "resume"
    /\ UNCHANGED <<now, time_scale, current_day, start_time, last_read, last_read_at,
                   ever_paused, paused_total>>
    /\ UNCHANGED schedVars
    /\ UNCHANGED engineVars
    /\ UNCHANGED threadVars

SetTimeScale(scale) ==
    /\ time_scale' = ClampScale(scale)
    /\ clock_call' = "set_time_scale"
    /\ UNCHANGED <<now, current_day, start_time, paused, pause_time,
                   last_read, last_read_at, frozen_read, pause_reads, ever_paused, paused_total>>
    /\ UNCHANGED schedVars
    /\ UNCHANGED engineVars
    /\ UNCHANGED threadVars

(***************************************************************************)
(* InfrastructureComponent / SystemComponent                               *)
(***************************************************************************)
\* InfrastructureComponent(...): health 100, status optimal, last_maintenance 0,
\* failure_threshold 30; rate is degradation_rate in health points per tick
Component(rate, crit) ==
    [health |-> 100, status |-> "optimal", last_maintenance |-> 0,
     degradation_rate |-> rate, failure_threshold |-> 30, critical |-> crit]

\* the threshold table of _update_status
\* (StatusOfStrictThresholds: with > in place of >=)
StatusOfStrictThresholds(health, failure_threshold) ==
    IF health > 90 THEN "optimal"
    ELSE IF health > 70 THEN "good"
    ELSE IF health > 50 THEN "degraded"
    ELSE IF health > failure_threshold THEN "critical"
    ELSE "failed"
StatusOf(health, failure_threshold) ==
    IF health >= 90 THEN "optimal"
    ELSE IF health >= 70 THEN "good"
    ELSE IF health >= 50 THEN "degraded"
    ELSE IF health >= failure_threshold THEN "critical"
    ELSE "failed"

update_status(c) == [c EXCEPT !.status = StatusOf(c.health, c.failure_threshold)]

update_health(c, delta_days) ==
    update_status([c EXCEPT !.health = Max(0, c.health - c.degradation_rate * delta_days)])

apply_damage(c, damage) ==
    update_status([c EXCEPT !.health = Max(0, c.health - damage)])

component_perform_maintenance_same_gain(c, day) ==
    [comp |-> update_status([c EXCEPT !.health = Min(100, c.health + 50),
                                      !.last_maintenance = day]),
     success |-> TRUE]

\* returns the component after the call and the value returned
component_perform_maintenance(c, day) ==
    [comp |-> update_status(
                 [c EXCEPT !.health = IF c.status = "failed"
                                      THEN Min(100, c.health + 30)
                                      ELSE Min(100, c.health + 50),
                           !.last_maintenance = day]),
     success |-> TRUE]

(***************************************************************************)
(* InfrastructureManagement / MaintenanceAndRepairs                        *)
(***************************************************************************)
\* the catalog, in the dict's insertion order (rates 0.05, 0.03, 0.06 per day)
KeyOrder == <<"roads", "bridges", "parks">>
CatalogEntry(k) ==
    CASE k = "roads"   -> Component(50, TRUE)
      [] k = "bridges" -> Component(30, TRUE)
      [] k = "parks"   -> Component(60, FALSE)
\* a critical and a non-critical component
Catalog == [k \in {"roads", "parks"} |-> CatalogEntry(k)]
\* two critical components and a non-critical one
PlanCatalog == [k \in {"roads", "bridges", "parks"} |-> CatalogEntry(k)]

\* identifiers a caller may pass: the keys and one that is no key
CallKeys == {"roads", "bridges", "parks", "subway"}
Ticks == 0..MaxTick
\* the day a caller of a repair passes: 0.0, or the clock's day
RepairDays == {0, MaxTick}
\* damage amounts a caller may pass
Damages == {0 - 10, 10, 40}

Range(q) == {q[i] : i \in 1..Len(q)}
Keys == DOMAIN infrastructure
\* the keys of self.infrastructure in iteration order
KeySeq == SelectSeq(KeyOrder, LAMBDA k : k \in Keys)

\* list.remove(x): drops the first occurrence
RECURSIVE Remove(_, _)
Remove(q, x) ==
    IF q = <<>> THEN <<>>
    ELSE IF Head(q) = x THEN Tail(q)
    ELSE <<Head(q)>> \o Remove(Tail(q), x)

\* the second loop of preventive_monitoring over keys ks, queue q so far
\* (EnqueueNoMembershipTest: without "key not in self.maintenance_queue")
RECURSIVE EnqueueNoMembershipTest(_, _)
EnqueueNoMembershipTest(ks, q) ==
    IF ks = <<>> THEN q
    ELSE EnqueueNoMembershipTest(Tail(ks),
            IF infrastructure[Head(ks)].health < 70
            THEN Append(q, Head(ks)) ELSE q)
RECURSIVE EnqueueBelowFifty(_, _)
EnqueueBelowFifty(ks, q) ==
    IF ks = <<>> THEN q
    ELSE EnqueueBelowFifty(Tail(ks),
            IF infrastructure[Head(ks)].health < 50 /\ Head(ks) \notin Range(q)
            THEN Append(q, Head(ks)) ELSE q)
RECURSIVE Enqueue(_, _)
Enqueue(ks, q) ==
    IF ks = <<>> THEN q
    ELSE Enqueue(Tail(ks),
            IF infrastructure[Head(ks)].health < 70 /\ Head(ks) \notin Range(q)
            THEN Append(q, Head(ks)) ELSE q)

\* the sort key (not critical, health): a precedes b strictly
\* (KeyLessHealthFirst: with the key (health, not critical))
KeyLessHealthFirst(a, b) ==
    \/ infrastructure[a].health < infrastructure[b].health
    \/ /\ infrastructure[a].health = infrastructure[b].health
       /\ infrastructure[a].critical /\ ~infrastructure[b].critical
KeyLess(a, b) ==
    \/ infrastructure[a].critical /\ ~infrastructure[b].critical
    \/ /\ infrastructure[a].critical = infrastructure[b].critical
       /\ infrastructure[a].health < infrastructure[b].health

\* sorted(q, key=...): a stable sort, by insertion
RECURSIVE InsertSorted(_, _)
InsertSorted(s, x) ==
    IF s = <<>> THEN <<x>>
    ELSE IF KeyLess(x, Head(s)) THEN <<x>> \o s
    ELSE <<Head(s)>> \o InsertSorted(Tail(s), x)
RECURSIVE Sorted(_)
Sorted(q) ==
    IF q = <<>> THEN <<>>
    ELSE InsertSorted(Sorted(SubSeq(q, 1, Len(q) - 1)), q[Len(q)])

\* the value plan_maintenance() returns in the current state
plan_maintenance ==
    IF maintenance_queue = <<>> THEN "None"
    ELSE Head(Sorted(maintenance_queue))

\* no status_report was returned
NoReport == [overall_health |-> [num |-> 0, den |-> 0], systems |-> <<>>]

SchedInit(components) ==
    /\ infrastructure = components
    /\ maintenance_queue = <<>>
    /\ last_update_day = 0
    /\ call = [op |-> "init"]
    /\ ret = "None"
    /\ report = NoReport
    /\ anomalies = <<>>

\* update(current_day) (UpdateAnyDelta: with delta_days != 0 as the test)
UpdateKeepsWatermark(day) ==
    /\ LET delta_days == day - last_update_day IN
         IF delta_days > 0
         THEN /\ infrastructure' =
                    [k \in Keys |-> update_health(infrastructure[k], delta_days)]
              /\ UNCHANGED last_update_day
         ELSE UNCHANGED <<infrastructure, last_update_day>>
    /\ call' = [op |-> "update", tick |-> day]
    /\ report' = NoReport
    /\ ret' = "None"
    /\ UNCHANGED maintenance_queue
    /\ UNCHANGED clockVars
    /\ UNCHANGED engineVars
    /\ UNCHANGED threadVars
    /\ UNCHANGED anomalies

UpdateAnyDelta(day) ==
    /\ LET delta_days == day - last_update_day IN
         IF delta_days # 0
         THEN /\ infrastructure' =
                    [k \in Keys |-> update_health(infrastructure[k], delta_days)]
              /\ last_update_day' = day
         ELSE UNCHANGED <<infrastructure, last_update_day>>
    /\ call' = [op |-> "update", tick |-> day]
    /\ report' = NoReport
    /\ ret' = "None"
    /\ UNCHANGED maintenance_queue
    /\ UNCHANGED clockVars
    /\ UNCHANGED engineVars
    /\ UNCHANGED threadVars
    /\ UNCHANGED anomalies
Update(day) ==
    /\ LET delta_days == day - last_update_day IN
         IF delta_days > 0
         THEN /\ infrastructure' =
                    [k \in Keys |-> update_health(infrastructure[k], delta_days)]
              /\ last_update_day' = day
         ELSE UNCHANGED <<infrastructure, last_update_day>>
    /\ call' = [op |-> "update", tick |-> day]
    /\ report' = NoReport
    /\ ret' = "None"
    /\ UNCHANGED maintenance_queue
    /\ UNCHANGED clockVars
    /\ UNCHANGED engineVars
    /\ UNCHANGED threadVars
    /\ UNCHANGED anomalies

WeightUniform(system) == 1

\* weight = 2.0 if system.critical else 1.0
Weight(system) == IF system.critical THEN 2 ELSE 1

\* the two accumulators of the loop of _calculate_overall_health
RECURSIVE WeightedSums(_, _)
WeightedSums(infra, ks) ==
    IF ks = <<>>
    THEN [weighted_health |-> 0, total_weight |-> 0]
    ELSE LET rest == WeightedSums(infra, Tail(ks))
             system == infra[Head(ks)]
         IN  [weighted_health |-> rest.weighted_health + system.health * Weight(system),
              total_weight |-> rest.total_weight + Weight(system)]

\* _calculate_overall_health(): the quotient as numerator and denominator,
\* 0.0 as 0 over 1
calculate_overall_health(infra) ==
    IF DOMAIN infra = {}
    THEN [num |-> 0, den |-> 1]
    ELSE LET sums == WeightedSums(infra, SelectSeq(KeyOrder, LAMBDA k : k \in DOMAIN infra)) IN
         IF sums.total_weight > 0
         THEN [num |-> sums.weighted_health, den |-> sums.total_weight]
         ELSE [num |-> 0, den |-> 1]

\* the status_report of preventive_monitoring (without the display names)
status_report ==
    [overall_health |-> calculate_overall_health(infrastructure),
     systems |-> [k \in Keys |-> [health |-> infrastructure[k].health,
                                  status |-> infrastructure[k].status,
                                  critical |-> infrastructure[k].critical]]]

PreventiveMonitoring ==
    /\ maintenance_queue' = Enqueue(KeySeq, maintenance_queue)
    /\ call' = [op |-> "preventive_monitoring"]
    /\ ret' = "report"
    /\ report' = status_report
    /\ UNCHANGED <<infrastructure, last_update_day>>
    /\ UNCHANGED clockVars
    /\ UNCHANGED engineVars
    /\ UNCHANGED threadVars
    /\ UNCHANGED anomalies

PlanMaintenanceDequeues ==
    /\ call' = [op |-> "plan_maintenance"]
    /\ report' = NoReport
    /\ ret' = plan_maintenance
    /\ maintenance_queue' = IF maintenance_queue = <<>> THEN <<>>
                            ELSE Remove(maintenance_queue, plan_maintenance)
    /\ UNCHANGED <<infrastructure, last_update_day>>
    /\ UNCHANGED clockVars
    /\ UNCHANGED engineVars
    /\ UNCHANGED threadVars
    /\ UNCHANGED anomalies

PlanMaintenance ==
    /\ call' = [op |-> "plan_maintenance"]
    /\ report' = NoReport
    /\ ret' = plan_maintenance
    /\ UNCHANGED <<infrastructure, maintenance_queue, last_update_day>>
    /\ UNCHANGED clockVars
    /\ UNCHANGED engineVars
    /\ UNCHANGED threadVars
    /\ UNCHANGED anomalies

\* perform_maintenance(component_key, current_day)
\* (PerformMaintenanceKeepsQueue: without the removal from the queue)
PerformMaintenanceKeepsQueue(component_key, day) ==
    /\ IF component_key \notin Keys
       THEN /\ ret' = "False"
            /\ UNCHANGED infrastructure
       ELSE LET r == component_perform_maintenance(infrastructure[component_key], day) IN
            /\ infrastructure' = [infrastructure EXCEPT ![component_key] = r.comp]
            /\ ret' = IF r.success THEN "True" ELSE "False"
    /\ call' = [op |-> "perform_maintenance"]
    /\ report' = NoReport
    /\ UNCHANGED <<maintenance_queue, last_update_day>>
    /\ UNCHANGED clockVars
    /\ UNCHANGED engineVars
    /\ UNCHANGED threadVars
    /\ UNCHANGED anomalies
PerformMaintenance(component_key, day) ==
    /\ IF component_key \notin Keys
       THEN /\ ret' = "False"
            /\ UNCHANGED <<infrastructure, maintenance_queue>>
       ELSE LET r == component_perform_maintenance(infrastructure[component_key],
                                                  day) IN
            /\ infrastructure' = [infrastructure EXCEPT ![component_key] = r.comp]
            /\ maintenance_queue' =
                   IF r.success /\ component_key \in Range(maintenance_queue)
                   THEN Remove(maintenance_queue, component_key)
                   ELSE maintenance_queue
            /\ ret' = IF r.success THEN "True" ELSE "False"
    /\ call' = [op |-> "perform_maintenance"]
    /\ report' = NoReport
    /\ UNCHANGED last_update_day
    /\ UNCHANGED clockVars
    /\ UNCHANGED engineVars
    /\ UNCHANGED threadVars
    /\ UNCHANGED anomalies

HandleSystemDamage(component_key, damage) ==
    /\ IF component_key \in Keys
       THEN infrastructure' =
               [infrastructure EXCEPT ![component_key] =
                   apply_damage(infrastructure[component_key], damage)]
       ELSE UNCHANGED infrastructure
    /\ call' = [op |-> "handle_system_damage"]
    /\ report' = NoReport
    /\ ret' = "None"
    /\ UNCHANGED <<maintenance_queue, last_update_day>>
    /\ UNCHANGED clockVars
    /\ UNCHANGED engineVars
    /\ UNCHANGED threadVars
    /\ UNCHANGED anomalies

EmergencyRepairByStatus(component_key, day) ==
    /\ IF component_key \notin Keys
       THEN /\ ret' = "False"
            /\ UNCHANGED <<infrastructure, maintenance_queue>>
       ELSE LET system == infrastructure[component_key] IN
            /\ infrastructure' =
                   [infrastructure EXCEPT ![component_key] =
                       update_status([system EXCEPT
                                         !.health = Min(100, system.health +
                                             (IF system.status = "failed" THEN 30 ELSE 70)),
                                         !.last_maintenance = day])]
            /\ maintenance_queue' =
                   IF component_key \in Range(maintenance_queue)
                   THEN Remove(maintenance_queue, component_key)
                   ELSE maintenance_queue
            /\ ret' = "True"
    /\ call' = [op |-> "emergency_repair"]
    /\ report' = NoReport
    /\ UNCHANGED last_update_day
    /\ UNCHANGED clockVars
    /\ UNCHANGED engineVars
    /\ UNCHANGED threadVars
    /\ UNCHANGED anomalies

EmergencyRepair(component_key, day) ==
    /\ IF component_key \notin Keys
       THEN /\ ret' = "False"
            /\ UNCHANGED <<infrastructure, maintenance_queue>>
       ELSE LET system == infrastructure[component_key] IN
            /\ infrastructure' =
                   [infrastructure EXCEPT ![component_key] =
                       update_status([system EXCEPT
                                         !.health = Min(100, system.health + 70),
                                         !.last_maintenance = day])]
            /\ maintenance_queue' =
                   IF component_key \in Range(maintenance_queue)
                   THEN Remove(maintenance_queue, component_key)
                   ELSE maintenance_queue
            /\ ret' = "True"
    /\ call' = [op |-> "emergency_repair"]
    /\ report' = NoReport
    /\ UNCHANGED last_update_day
    /\ UNCHANGED clockVars
    /\ UNCHANGED engineVars
    /\ UNCHANGED threadVars
    /\ UNCHANGED anomalies

(***************************************************************************)
(* Event generator and simulation engine (simulation_engine.py)            *)
(***************************************************************************)
MaxEvents == 2
MaxLog == 1
MaxCallbacks == 2
MaxAlerts == 2       \* alerts created by create_alert calls
MaxProposals == 1    \* proposals created by create_proposal calls
MaxVotes == 2        \* size of a proposal's vote counts when a vote is cast

\* resolution_time = None
None == 0 - 1
\* the kinds check_for_events draws, in the order of its draws (the first two)
KindOrder == <<"infrastructure_failure", "public_complaint">>
Kinds == Range(KindOrder)
\* callables a caller registers; "cb_raises" raises an Exception when invoked
Callbacks == {"cb_ok", "cb_raises"}
Raises(callback) == callback = "cb_raises"
\* names passed to register_callback; "on_tick" is not a key of self.callbacks
CallbackNames == {"on_event", "on_day_change", "on_tick"}

IntPartIdentity(day) == day

\* 0.1 day
SamplingGap == DayDen \div 10
\* int(day) of a day number that is not negative
IntPart(day) == day \div DayDen

\* SimulationEvent(...) as every generator builds it: resolved and
\* resolution_time keep their defaults
SimulationEvent(event_type, day) ==
    [event_type |-> event_type, timestamp |-> day,
     resolved |-> FALSE, resolution_time |-> None]

check_for_events_always(day, drawn) ==
    LET ks == SelectSeq(KindOrder, LAMBDA k : k \in drawn) IN
    [events |-> [i \in 1..Len(ks) |-> SimulationEvent(ks[i], day)],
     last_check_day |-> day]

\* EventGenerator.check_for_events(current_day, city_state); drawn is the set
\* of kinds whose random draw fell under the kind's probability
check_for_events(day, drawn) ==
    IF day - last_check_day < SamplingGap
    THEN [events |-> <<>>, last_check_day |-> last_check_day]
    ELSE LET ks == SelectSeq(KindOrder, LAMBDA k : k \in drawn) IN
         [events |-> [i \in 1..Len(ks) |-> SimulationEvent(ks[i], day)],
          last_check_day |-> day]

RECURSIVE trigger_callbacks_propagating(_, _, _)
trigger_callbacks_propagating(cbs, event_name, arg) ==
    IF cbs = <<>>
    THEN [calls |-> <<>>, raised |-> FALSE]
    ELSE LET invocation == [callback |-> Head(cbs), name |-> event_name, arg |-> arg]
             rest == trigger_callbacks_propagating(Tail(cbs), event_name, arg)
         IN  IF Raises(Head(cbs))
             THEN [calls |-> <<invocation>>, raised |-> TRUE]
             ELSE [calls |-> <<invocation>> \o rest.calls, raised |-> rest.raised]

\* trigger_callbacks(event_name, arg) over the list cbs: the invocations made,
\* and whether an exception left the loop
RECURSIVE trigger_callbacks(_, _, _)
trigger_callbacks(cbs, event_name, arg) ==
    IF cbs = <<>>
    THEN [calls |-> <<>>, raised |-> FALSE]
    ELSE LET invocation == [callback |-> Head(cbs), name |-> event_name, arg |-> arg]
             rest == trigger_callbacks(Tail(cbs), event_name, arg)
         IN  \* except Exception: the error is logged and the loop goes on
             [calls |-> <<invocation>> \o rest.calls, raised |-> rest.raised]

add_event_front(log, event) ==
    LET t == trigger_callbacks(callbacks["on_event"], "on_event", event) IN
    [events |-> <<event>> \o log, calls |-> t.calls, raised |-> t.raised]

\* add_event(event) on the log: append, then dispatch on_event
add_event(log, event) ==
    LET t == trigger_callbacks(callbacks["on_event"], "on_event", event) IN
    [events |-> Append(log, event), calls |-> t.calls, raised |-> t.raised]

\* "for event in new_events: self.add_event(event)"; an exception leaving
\* add_event would leave the loop
RECURSIVE add_events(_, _)
add_events(log, new) ==
    IF new = <<>>
    THEN [events |-> log, calls |-> <<>>, raised |-> FALSE]
    ELSE LET first == add_event(log, Head(new)) IN
         IF first.raised
         THEN first
         ELSE LET rest == add_events(first.events, Tail(new)) IN
              [events |-> rest.events, calls |-> first.calls \o rest.calls,
               raised |-> rest.raised]

resolve_event_flag_only(event, day) ==
    [event EXCEPT !.resolved = TRUE]

\* resolve_event(event) at the day the clock returns
resolve_event(event, day) ==
    [event EXCEPT !.resolved = TRUE, !.resolution_time = day]

EngineInit ==
    /\ last_check_day = 0
    /\ events = <<>>
    /\ callbacks = [name \in {"on_event", "on_day_change", "on_state_update"} |-> <<>>]
    /\ last_day = 0
    /\ ecall = [op |-> "init", raised |-> FALSE]
    /\ new_events = <<>>
    /\ dispatched = <<>>

RegisterCallbackAnyName(event_name, callback) ==
    /\ \A name \in DOMAIN callbacks : Len(callbacks[name]) < MaxCallbacks
    /\ callbacks' = IF event_name \in DOMAIN callbacks
                    THEN [callbacks EXCEPT ![event_name] = Append(callbacks[event_name], callback)]
                    ELSE [name \in DOMAIN callbacks \cup {event_name} |->
                             IF name = event_name THEN <<callback>> ELSE callbacks[name]]
    /\ ecall' = [op |-> "register_callback", raised |-> FALSE, name |-> event_name]
    /\ new_events' = <<>>
    /\ dispatched' = <<>>
    /\ UNCHANGED <<last_check_day, events, last_day>>
    /\ UNCHANGED clockVars
    /\ UNCHANGED schedVars
    /\ UNCHANGED threadVars

RegisterCallback(event_name, callback) ==
    /\ \A name \in DOMAIN callbacks : Len(callbacks[name]) < MaxCallbacks
    /\ callbacks' = IF event_name \in DOMAIN callbacks
                    THEN [callbacks EXCEPT ![event_name] = Append(callbacks[event_name], callback)]
                    ELSE callbacks
    /\ ecall' = [op |-> "register_callback", raised |-> FALSE, name |-> event_name]
    /\ new_events' = <<>>
    /\ dispatched' = <<>>
    /\ UNCHANGED <<last_check_day, events, last_day>>
    /\ UNCHANGED clockVars
    /\ UNCHANGED schedVars
    /\ UNCHANGED threadVars

ResolveEvent(i) ==
    /\ i \in 1..Len(events)
    /\ ClockRead
    /\ events' = [events EXCEPT ![i] = resolve_event(events[i], DayRead)]
    /\ ecall' = [op |-> "resolve_event", raised |-> FALSE]
    /\ new_events' = <<>>
    /\ dispatched' = <<>>
    /\ UNCHANGED <<last_check_day, callbacks, last_day>>
    /\ UNCHANGED schedVars
    /\ UNCHANGED threadVars

\* add_event(event) called with an event the caller stamps with the clock's day
AddEvent(event_type) ==
    LET added == add_event(events, SimulationEvent(event_type, DayRead)) IN
    /\ ClockRead
    /\ events' = added.events
    /\ dispatched' = added.calls
    /\ new_events' = <<>>
    /\ ecall' = [op |-> "add_event", raised |-> added.raised]
    /\ UNCHANGED <<last_check_day, callbacks, last_day>>
    /\ UNCHANGED schedVars
    /\ UNCHANGED threadVars

\* get_active_events()
GetActiveEvents ==
    /\ new_events' = SelectSeq(events, LAMBDA e : ~e.resolved)
    /\ ecall' = [op |-> "get_active_events", raised |-> FALSE]
    /\ dispatched' = <<>>
    /\ UNCHANGED <<last_check_day, events, callbacks, last_day>>
    /\ UNCHANGED clockVars
    /\ UNCHANGED schedVars
    /\ UNCHANGED threadVars

\* update(colony_state)
EngineUpdateOnAnyChange(drawn) ==
    LET day == DayRead
        checked == check_for_events(day, drawn)
        added == add_events(events, checked.events)
        boundary == ~added.raised /\ IntPart(day) # IntPart(last_day)
        changed == IF boundary
                   THEN trigger_callbacks(callbacks["on_day_change"], "on_day_change",
                                          [day |-> IntPart(day)])
                   ELSE [calls |-> <<>>, raised |-> FALSE]
        raised == added.raised \/ changed.raised
    IN  /\ ClockRead
        /\ last_check_day' = checked.last_check_day
        /\ events' = added.events
        /\ last_day' = IF boundary /\ ~changed.raised THEN day ELSE last_day
        /\ dispatched' = added.calls \o changed.calls
        /\ new_events' = IF raised THEN <<>> ELSE checked.events
        /\ ecall' = [op |-> "update", raised |-> raised]
        /\ UNCHANGED callbacks
        /\ UNCHANGED schedVars
        /\ UNCHANGED threadVars

EngineUpdate(drawn) ==
    LET day == DayRead
        checked == check_for_events(day, drawn)
        added == add_events(events, checked.events)
        boundary == ~added.raised /\ IntPart(day) > IntPart(last_day)
        changed == IF boundary
                   THEN trigger_callbacks(callbacks["on_day_change"], "on_day_change",
                                          [day |-> IntPart(day)])
                   ELSE [calls |-> <<>>, raised |-> FALSE]
        raised == added.raised \/ changed.raised
    IN  /\ ClockRead
        /\ last_check_day' = checked.last_check_day
        /\ events' = added.events
        /\ last_day' = IF boundary /\ ~changed.raised THEN day ELSE last_day
        /\ dispatched' = added.calls \o changed.calls
        /\ new_events' = IF raised THEN <<>> ELSE checked.events
        /\ ecall' = [op |-> "update", raised |-> raised]
        /\ UNCHANGED callbacks
        /\ UNCHANGED schedVars
        /\ UNCHANGED threadVars

(***************************************************************************)
(* Threads and locks                                                       *)
(***************************************************************************)
\* self.lock of InfrastructureManagement and of CitizenWellbeing, and
\* self.state_lock of AEONMunicipalSimulator; SimulationEngine creates no lock
Locks == {"infrastructure", "wellbeing", "state", "oversight", "governance"}
Threads == {"repair", "monitor", "update", "wellbeing", "simulator", "reader", "writer",
            "admin", "operator", "citizen", "council"}

\* no call was made
NoRace == [calls |-> {}]

\* CitizenWellbeing.__init__ and the current_state of AEONMunicipalSimulator.__init__
SubsystemsInit ==
    /\ oversight_mode = "monitoring"
    /\ alerts = <<>>
    /\ running = FALSE
    /\ started = {}
    /\ proposals = <<>>
    /\ voting_history = <<>>
    /\ active_policies = <<>>
    /\ satisfaction_scores = <<>>
    /\ public_sentiment = [num |-> 0, den |-> 1]
    /\ current_state = [day |-> 0, infrastructure_health |-> [num |-> 100, den |-> 1],
                        public_sentiment |-> [num |-> 0, den |-> 1], active_events |-> 0]

\* no lock is held and no thread is inside a call
IdleInit ==
    /\ SubsystemsInit
    /\ lock = [l \in Locks |-> "none"]
    /\ stack = [t \in Threads |-> <<>>]
    /\ race0 = NoRace

\* a call of fn just made: the frame stands before the function's "with self.lock:"
Frame(fn, key, day) ==
    [fn |-> fn, at |-> "acquire", key |-> key, day |-> day, i |-> 1, d |-> 0]
Top(t) == Head(stack[t])
SetTop(t, frame) == [stack EXCEPT ![t] = <<frame>> \o Tail(stack[t])]
InfrastructureCalls ==
    {"update", "preventive_monitoring", "perform_maintenance", "emergency_repair"}
WellbeingCalls ==
    {"update_wellbeing_metrics", "analyze_satisfaction_trends", "identify_issues", "get_status"}
OversightCalls ==
    {"emergency_shutdown", "create_alert", "acknowledge_alert", "get_oversight_status"}
GovernanceCalls == {"create_proposal", "vote", "process_proposals"}
\* the lock a function takes
LockOf(fn) ==
    CASE fn \in InfrastructureCalls -> "infrastructure"
      [] fn \in WellbeingCalls -> "wellbeing"
      [] fn \in OversightCalls -> "oversight"
      [] fn \in GovernanceCalls -> "governance"
      [] OTHER -> "state"

AcquireUnguarded(t) ==
    /\ stack[t] # <<>>
    /\ Top(t).at = "acquire"
    /\ lock' = [lock EXCEPT ![LockOf(Top(t).fn)] = t]
    /\ stack' = SetTop(t, [Top(t) EXCEPT !.at = "body"])
    /\ UNCHANGED <<satisfaction_scores, public_sentiment, current_state, race0>>
    /\ UNCHANGED moduleVars
    /\ UNCHANGED <<clockVars, schedVars, engineVars>>

\* "with self.lock:" entered: threading.Lock is not reentrant, so the thread
\* waits while anyone, itself included, holds the lock
Acquire(t) ==
    /\ stack[t] # <<>>
    /\ Top(t).at = "acquire"
    /\ lock[LockOf(Top(t).fn)] = "none"
    /\ lock' = [lock EXCEPT ![LockOf(Top(t).fn)] = t]
    /\ stack' = SetTop(t, [Top(t) EXCEPT !.at = "body"])
    /\ UNCHANGED <<satisfaction_scores, public_sentiment, current_state, race0>>
    /\ UNCHANGED moduleVars
    /\ UNCHANGED <<clockVars, schedVars, engineVars>>

\* the "with" block is left and the function returns to its caller
Release(t) ==
    /\ stack[t] # <<>>
    /\ Top(t).at = "exit"
    /\ lock' = [lock EXCEPT ![LockOf(Top(t).fn)] = "none"]
    /\ stack' = [stack EXCEPT ![t] = Tail(stack[t])]
    /\ UNCHANGED <<satisfaction_scores, public_sentiment, current_state, race0>>
    /\ UNCHANGED moduleVars
    /\ UNCHANGED <<clockVars, schedVars, engineVars>>

\* update(current_day), statement by statement
UpdateStep(t) ==
    /\ stack[t] # <<>>
    /\ Top(t).fn = "update"
    /\ LET f == Top(t) IN
       \/ /\ f.at = "body"
          /\ IF f.day - last_update_day > 0
             THEN /\ stack' = SetTop(t, [f EXCEPT !.at = "loop", !.i = 1,
                                                  !.d = f.day - last_update_day])
                  /\ UNCHANGED <<call, ret, report>>
             ELSE /\ stack' = SetTop(t, [f EXCEPT !.at = "exit"])
                  /\ call' = [op |-> "update", tick |-> f.day]
                  /\ ret' = "None"
                  /\ report' = NoReport
          /\ UNCHANGED <<infrastructure, last_update_day>>
       \/ /\ f.at = "loop"
          /\ IF f.i <= Len(KeySeq)
             THEN /\ infrastructure' =
                         [infrastructure EXCEPT ![KeySeq[f.i]] =
                             update_health(infrastructure[KeySeq[f.i]], f.d)]
                  /\ stack' = SetTop(t, [f EXCEPT !.i = f.i + 1])
                  /\ UNCHANGED <<last_update_day, call, ret, report>>
             ELSE /\ last_update_day' = f.day
                  /\ stack' = SetTop(t, [f EXCEPT !.at = "exit"])
                  /\ call' = [op |-> "update", tick |-> f.day]
                  /\ ret' = "None"
                  /\ report' = NoReport
                  /\ UNCHANGED infrastructure
    /\ UNCHANGED maintenance_queue
    /\ UNCHANGED <<satisfaction_scores, public_sentiment, current_state, lock, race0>>
    /\ UNCHANGED moduleVars
    /\ UNCHANGED <<clockVars, engineVars>>
    /\ UNCHANGED anomalies

\* preventive_monitoring(): the report, then the loop that queues
MonitoringStep(t) ==
    /\ stack[t] # <<>>
    /\ Top(t).fn = "preventive_monitoring"
    /\ LET f == Top(t) IN
       \/ /\ f.at = "body"
          /\ report' = status_report
          /\ stack' = SetTop(t, [f EXCEPT !.at = "loop", !.i = 1])
          /\ UNCHANGED <<maintenance_queue, call, ret>>
       \/ /\ f.at = "loop"
          /\ IF f.i <= Len(KeySeq)
             THEN /\ maintenance_queue' =
                         IF /\ infrastructure[KeySeq[f.i]].health < 70
                            /\ KeySeq[f.i] \notin Range(maintenance_queue)
                         THEN Append(maintenance_queue, KeySeq[f.i])
                         ELSE maintenance_queue
                  /\ stack' = SetTop(t, [f EXCEPT !.i = f.i + 1])
                  /\ UNCHANGED <<call, ret>>
             ELSE /\ stack' = SetTop(t, [f EXCEPT !.at = "exit"])
                  /\ call' = [op |-> "preventive_monitoring"]
                  /\ ret' = "report"
                  /\ UNCHANGED maintenance_queue
          /\ UNCHANGED report
    /\ UNCHANGED <<infrastructure, last_update_day>>
    /\ UNCHANGED <<satisfaction_scores, public_sentiment, current_state, lock, race0>>
    /\ UNCHANGED moduleVars
    /\ UNCHANGED <<clockVars, engineVars>>
    /\ UNCHANGED anomalies

\* perform_maintenance / emergency_repair: the component, then the queue
RepairStep(t) ==
    /\ stack[t] # <<>>
    /\ Top(t).fn \in {"perform_maintenance", "emergency_repair"}
    /\ LET f == Top(t) IN
       \/ /\ f.at = "body"
          /\ IF f.key \notin Keys
             THEN /\ stack' = SetTop(t, [f EXCEPT !.at = "exit"])
                  /\ call' = [op |-> f.fn]
                  /\ ret' = "False"
                  /\ report' = NoReport
                  /\ UNCHANGED infrastructure
             ELSE LET system == infrastructure[f.key] IN
                  /\ infrastructure' =
                         [infrastructure EXCEPT ![f.key] =
                             IF f.fn = "perform_maintenance"
                             THEN component_perform_maintenance(system, f.day).comp
                             ELSE update_status([system EXCEPT
                                                    !.health = Min(100, system.health + 70),
                                                    !.last_maintenance = f.day])]
                  /\ stack' = SetTop(t, [f EXCEPT !.at = "remove"])
                  /\ UNCHANGED <<call, ret, report>>
          /\ UNCHANGED maintenance_queue
       \/ /\ f.at = "remove"
          /\ maintenance_queue' =
                 IF f.key \in Range(maintenance_queue)
                 THEN Remove(maintenance_queue, f.key)
                 ELSE maintenance_queue
          /\ stack' = SetTop(t, [f EXCEPT !.at = "exit"])
          /\ call' = [op |-> f.fn]
          /\ ret' = "True"
          /\ report' = NoReport
          /\ UNCHANGED infrastructure
    /\ UNCHANGED last_update_day
    /\ UNCHANGED <<satisfaction_scores, public_sentiment, current_state, lock, race0>>
    /\ UNCHANGED moduleVars
    /\ UNCHANGED <<clockVars, engineVars>>
    /\ UNCHANGED anomalies

Citizens == {"Citizen_1", "Citizen_2"}
\* outcomes of calculate_satisfaction
Scores == {20, 80}
RECURSIVE SumOver(_, _)
SumOver(f, S) ==
    IF S = {} THEN 0
    ELSE LET x == CHOOSE y \in S : TRUE IN f[x] + SumOver(f, S \ {x})
\* (avg_satisfaction - 50) * 2, as a fraction over the number of citizens
Sentiment(scores) ==
    [num |-> (SumOver(scores, DOMAIN scores) - 50 * Cardinality(DOMAIN scores)) * 2,
     den |-> Cardinality(DOMAIN scores)]
Call(t, fn, key, day, resume) ==
    [stack EXCEPT ![t] = <<Frame(fn, key, day), [Top(t) EXCEPT !.at = resume]>> \o Tail(stack[t])]

\* the bodies of CitizenWellbeing's methods, inside "with self.lock:"
WellbeingStep(t) ==
    /\ stack[t] # <<>>
    /\ Top(t).fn \in WellbeingCalls
    /\ Top(t).at \notin {"acquire", "exit"}
    /\ LET f == Top(t) IN
       IF f.fn = "update_wellbeing_metrics"
       THEN /\ \E scores \in [Citizens -> Scores] : satisfaction_scores' = scores
            /\ stack' = SetTop(t, [f EXCEPT !.at = "exit"])
            /\ UNCHANGED public_sentiment
       ELSE IF f.fn = "analyze_satisfaction_trends"
       THEN /\ public_sentiment' = IF DOMAIN satisfaction_scores = {}
                                   THEN public_sentiment
                                   ELSE Sentiment(satisfaction_scores)
            /\ stack' = SetTop(t, [f EXCEPT !.at = "exit"])
            /\ UNCHANGED satisfaction_scores
       ELSE IF f.fn = "identify_issues"
       THEN /\ stack' = SetTop(t, [f EXCEPT !.at = "exit"])
            /\ UNCHANGED <<satisfaction_scores, public_sentiment>>
       ELSE \* get_status: calls analyze_satisfaction_trends with self.lock held
            /\ stack' = IF f.at = "body"
                        THEN Call(t, "analyze_satisfaction_trends", "", 0, "trends")
                        ELSE SetTop(t, [f EXCEPT !.at = "exit"])
            /\ UNCHANGED <<satisfaction_scores, public_sentiment>>
    /\ UNCHANGED <<current_state, lock, race0>>
    /\ UNCHANGED moduleVars
    /\ UNCHANGED <<clockVars, schedVars, engineVars>>

\* CitizenWellbeing.run: the three calls of the loop, for ever
RunNext(at) ==
    CASE at = "update_wellbeing_metrics" -> "analyze_satisfaction_trends"
      [] at = "analyze_satisfaction_trends" -> "identify_issues"
      [] OTHER -> "update_wellbeing_metrics"
RunStep(t) ==
    /\ stack[t] # <<>>
    /\ Top(t).fn = "run"
    /\ stack' = Call(t, Top(t).at, "", 0, RunNext(Top(t).at))
    /\ UNCHANGED <<satisfaction_scores, public_sentiment, current_state, lock, race0>>
    /\ UNCHANGED moduleVars
    /\ UNCHANGED <<clockVars, schedVars, engineVars>>

\* MunicipalSimulator._update_loop and _update_state
SimulatorStep(t) ==
    /\ stack[t] # <<>>
    /\ Top(t).fn \in {"_update_loop", "_update_state"}
    /\ Top(t).at \notin {"acquire", "exit"}
    /\ LET f == Top(t) IN
       IF f.fn = "_update_loop"
       THEN /\ IF f.at = "get_current_day"
               THEN \E day \in Ticks :
                       stack' = [stack EXCEPT ![t] =
                                    <<Frame("update", "", day),
                                      [f EXCEPT !.at = "_update_state", !.day = day]>>
                                    \o Tail(stack[t])]
               ELSE IF f.at = "_update_state"
               THEN stack' = Call(t, "_update_state", "", f.day, "sleep")
               ELSE stack' = SetTop(t, [f EXCEPT !.at = "get_current_day"])
            /\ UNCHANGED current_state
       ELSE IF f.at = "body"
       THEN /\ current_state' = [current_state EXCEPT !.day = f.day]
            /\ stack' = Call(t, "preventive_monitoring", "", 0, "infra_status")
       ELSE IF f.at = "infra_status"
       THEN /\ current_state' =
                   [current_state EXCEPT !.infrastructure_health = report.overall_health]
            /\ stack' = Call(t, "get_status", "", 0, "wellbeing_status")
       ELSE /\ current_state' =
                   [current_state EXCEPT
                       !.public_sentiment = public_sentiment,
                       !.active_events = Len(SelectSeq(events, LAMBDA e : ~e.resolved))]
            /\ stack' = SetTop(t, [f EXCEPT !.at = "exit"])
    /\ UNCHANGED <<satisfaction_scores, public_sentiment, lock, race0>>
    /\ UNCHANGED moduleVars
    /\ UNCHANGED <<clockVars, schedVars, engineVars>>

\* SimulationEngine.__init__ creates no lock
EngineLocks == {}
EngineCalls == {"get_active_events", "add_event", "resolve_event"}
\* a call of an engine method: its body runs at once, it takes no lock;
\* acc is the list that get_active_events builds (positions in the log)
EngineFrame(fn, event_type, i) ==
    [fn |-> fn, at |-> "body", key |-> event_type, day |-> 0, i |-> i, d |-> 0, acc |-> <<>>]
\* the unresolved events of a log, by position
ActiveIn(log) == SelectSeq([i \in 1..Len(log) |-> i], LAMBDA i : ~log[i].resolved)
\* the states of the log during a get_active_events call in progress
Observe(log) ==
    IF race0.calls = {} THEN race0 ELSE [race0 EXCEPT !.seen = @ \cup {ActiveIn(log)}]

GetActiveEventsCall(t) ==
    /\ stack[t] = <<>>
    /\ race0 = NoRace
    /\ stack' = [stack EXCEPT ![t] = <<EngineFrame("get_active_events", "", 1)>>]
    /\ race0' = [calls |-> {t}, seen |-> {ActiveIn(events)}]
    /\ UNCHANGED <<satisfaction_scores, public_sentiment, current_state, lock>>
    /\ UNCHANGED moduleVars
    /\ UNCHANGED <<clockVars, schedVars, engineVars>>

\* [e for e in self.events if not e.resolved], one element at a time
GetActiveEventsStep(t) ==
    /\ stack[t] # <<>>
    /\ Top(t).fn = "get_active_events"
    /\ Top(t).at = "body"
    /\ LET f == Top(t) IN
       stack' = SetTop(t,
                   IF f.i <= Len(events)
                   THEN [f EXCEPT !.i = f.i + 1,
                                  !.acc = IF events[f.i].resolved THEN @ ELSE Append(@, f.i)]
                   ELSE [f EXCEPT !.at = "exit"])
    /\ UNCHANGED <<satisfaction_scores, public_sentiment, current_state, lock, race0>>
    /\ UNCHANGED moduleVars
    /\ UNCHANGED <<clockVars, schedVars, engineVars>>

GetActiveEventsReturn(t) ==
    /\ stack[t] # <<>>
    /\ Top(t).fn = "get_active_events"
    /\ Top(t).at = "exit"
    /\ new_events' = [k \in 1..Len(Top(t).acc) |-> events[Top(t).acc[k]]]
    /\ ecall' = [op |-> "get_active_events", raised |-> FALSE]
    /\ dispatched' = <<>>
    /\ stack' = [stack EXCEPT ![t] = Tail(stack[t])]
    /\ race0' = NoRace
    /\ UNCHANGED <<last_check_day, events, callbacks, last_day>>
    /\ UNCHANGED <<satisfaction_scores, public_sentiment, current_state, lock>>
    /\ UNCHANGED moduleVars
    /\ UNCHANGED <<clockVars, schedVars>>

\* add_event(event) or resolve_event(event) is called
LogWriteCall(t, fn, event_type, i) ==
    /\ stack[t] = <<>>
    /\ fn = "resolve_event" => i \in 1..Len(events)
    /\ stack' = [stack EXCEPT ![t] = <<EngineFrame(fn, event_type, i)>>]
    /\ UNCHANGED <<satisfaction_scores, public_sentiment, current_state, lock, race0>>
    /\ UNCHANGED moduleVars
    /\ UNCHANGED <<clockVars, schedVars, engineVars>>

\* add_event: the append, then the callbacks; resolve_event: the flag, then
\* the resolution time
LogWriteStep(t) ==
    /\ stack[t] # <<>>
    /\ Top(t).fn \in {"add_event", "resolve_event"}
    /\ LET f == Top(t) IN
       IF f.fn = "add_event"
       THEN IF f.at = "body"
            THEN /\ ClockRead
                 /\ events' = Append(events, SimulationEvent(f.key, DayRead))
                 /\ stack' = SetTop(t, [f EXCEPT !.at = "callbacks", !.i = Len(events) + 1])
                 /\ UNCHANGED <<ecall, dispatched, new_events>>
            ELSE /\ dispatched' =
                        trigger_callbacks(callbacks["on_event"], "on_event", events[f.i]).calls
                 /\ ecall' = [op |-> "add_event", raised |-> FALSE]
                 /\ new_events' = <<>>
                 /\ stack' = [stack EXCEPT ![t] = Tail(stack[t])]
                 /\ UNCHANGED events
                 /\ UNCHANGED clockVars
       ELSE IF f.at = "body"
            THEN /\ events' = [events EXCEPT ![f.i].resolved = TRUE]
                 /\ stack' = SetTop(t, [f EXCEPT !.at = "resolution_time"])
                 /\ UNCHANGED <<ecall, dispatched, new_events>>
                 /\ UNCHANGED clockVars
            ELSE /\ ClockRead
                 /\ events' = [events EXCEPT ![f.i].resolution_time = DayRead]
                 /\ ecall' = [op |-> "resolve_event", raised |-> FALSE]
                 /\ dispatched' = <<>>
                 /\ new_events' = <<>>
                 /\ stack' = [stack EXCEPT ![t] = Tail(stack[t])]
    /\ race0' = Observe(events')
    /\ UNCHANGED <<last_check_day, callbacks, last_day>>
    /\ UNCHANGED <<satisfaction_scores, public_sentiment, current_state, lock>>
    /\ UNCHANGED moduleVars
    /\ UNCHANGED schedVars

\* the calls as functions of the scheduler's state st, for serial executions
SerialUpdate(st, day) ==
    IF day - st.last_update_day > 0
    THEN [st EXCEPT !.infrastructure =
                        [k \in DOMAIN st.infrastructure |->
                            update_health(st.infrastructure[k], day - st.last_update_day)],
                    !.last_update_day = day]
    ELSE st
RECURSIVE EnqueueIn(_, _, _)
EnqueueIn(infra, ks, q) ==
    IF ks = <<>> THEN q
    ELSE EnqueueIn(infra, Tail(ks),
            IF infra[Head(ks)].health < 70 /\ Head(ks) \notin Range(q)
            THEN Append(q, Head(ks)) ELSE q)
SerialMonitoring(st) ==
    [st EXCEPT !.maintenance_queue =
        EnqueueIn(st.infrastructure,
                  SelectSeq(KeyOrder, LAMBDA k : k \in DOMAIN st.infrastructure),
                  st.maintenance_queue)]
SerialRepair(st, fn, key, day) ==
    IF key \notin DOMAIN st.infrastructure
    THEN st
    ELSE LET system == st.infrastructure[key] IN
         [st EXCEPT !.infrastructure[key] =
                        IF fn = "perform_maintenance"
                        THEN component_perform_maintenance(system, day).comp
                        ELSE update_status([system EXCEPT
                                               !.health = Min(100, system.health + 70),
                                               !.last_maintenance = day]),
                    !.maintenance_queue =
                        IF key \in Range(st.maintenance_queue)
                        THEN Remove(st.maintenance_queue, key)
                        ELSE st.maintenance_queue]

\* the scheduler counts days in 24ths: the clock's reading as the scheduler's
\* tick (exact for the scales of ClockInit)
LoopDay(day) == day \div ScaleUnit

UpdateLoopRecomputes ==
    LET day == LoopDay(ComputeDay)
        delta_days == day - last_update_day
    IN  /\ ClockRead
        /\ IF delta_days > 0
           THEN /\ infrastructure' =
                      [k \in Keys |-> update_health(infrastructure[k], delta_days)]
                /\ last_update_day' = day
           ELSE UNCHANGED <<infrastructure, last_update_day>>
        /\ call' = [op |-> "update", tick |-> day]
        /\ report' = NoReport
        /\ ret' = "None"
        /\ UNCHANGED maintenance_queue
        /\ UNCHANGED engineVars
        /\ UNCHANGED threadVars
        /\ UNCHANGED anomalies

\* one pass of _update_loop up to the scheduler: current_day =
\* self.engine.clock.get_current_day(); self.infrastructure.update(current_day)
UpdateLoop ==
    LET day == LoopDay(DayRead)
        delta_days == day - last_update_day
    IN  /\ ClockRead
        /\ IF delta_days > 0
           THEN /\ infrastructure' =
                      [k \in Keys |-> update_health(infrastructure[k], delta_days)]
                /\ last_update_day' = day
           ELSE UNCHANGED <<infrastructure, last_update_day>>
        /\ call' = [op |-> "update", tick |-> day]
        /\ report' = NoReport
        /\ ret' = "None"
        /\ UNCHANGED maintenance_queue
        /\ UNCHANGED engineVars
        /\ UNCHANGED threadVars
        /\ UNCHANGED anomalies

\* the record diagnose_anomalies appends for a component, <<>> if none
Anomaly(key, component) ==
    IF component.status = "critical"
    THEN <<[component |-> key, type |-> "critical_health", severity |-> "high"]>>
    ELSE IF component.status = "failed"
    THEN <<[component |-> key, type |-> "infrastructure_failure", severity |-> "critical"]>>
    ELSE IF component.status = "degraded" /\ component.critical
    THEN <<[component |-> key, type |-> "degradation", severity |-> "medium"]>>
    ELSE <<>>
RECURSIVE diagnose_anomalies(_, _)
diagnose_anomalies(infra, ks) ==
    IF ks = <<>> THEN <<>>
    ELSE Anomaly(Head(ks), infra[Head(ks)]) \o diagnose_anomalies(infra, Tail(ks))

DiagnoseAnomaliesAccumulates ==
    /\ anomalies' = anomalies \o diagnose_anomalies(infrastructure, KeySeq)
    /\ call' = [op |-> "diagnose_anomalies"]
    /\ ret' = "anomalies"
    /\ report' = NoReport
    /\ UNCHANGED <<infrastructure, maintenance_queue, last_update_day>>
    /\ UNCHANGED clockVars
    /\ UNCHANGED engineVars
    /\ UNCHANGED threadVars

\* self.anomalies = []; the loop over self.infrastructure.items(); return self.anomalies
DiagnoseAnomalies ==
    /\ anomalies' = diagnose_anomalies(infrastructure, KeySeq)
    /\ call' = [op |-> "diagnose_anomalies"]
    /\ ret' = "anomalies"
    /\ report' = NoReport
    /\ UNCHANGED <<infrastructure, maintenance_queue, last_update_day>>
    /\ UNCHANGED clockVars
    /\ UNCHANGED engineVars
    /\ UNCHANGED threadVars

\* a thread with nothing to do calls a method
MethodCall(t, fn, key, day) ==
    /\ stack[t] = <<>>
    /\ stack' = [stack EXCEPT ![t] = <<Frame(fn, key, day)>>]
    /\ UNCHANGED <<satisfaction_scores, public_sentiment, current_state, lock, race0>>
    /\ UNCHANGED moduleVars
    /\ UNCHANGED <<clockVars, schedVars, engineVars>>

\* the bodies of AdministratorOversight's methods, inside "with self.lock:";
\* key is the severity of create_alert, day the index of acknowledge_alert
OversightStep(t) ==
    /\ stack[t] # <<>>
    /\ Top(t).fn \in OversightCalls
    /\ Top(t).at \notin {"acquire", "exit"}
    /\ LET f == Top(t) IN
       IF f.fn = "create_alert"
       THEN /\ alerts' = Append(alerts, [severity |-> f.key, acknowledged |-> FALSE])
            /\ stack' = SetTop(t, [f EXCEPT !.at = "exit"])
            /\ UNCHANGED oversight_mode
       ELSE IF f.fn = "acknowledge_alert"
       THEN /\ alerts' = IF 0 <= f.day /\ f.day < Len(alerts)
                         THEN [alerts EXCEPT ![f.day + 1].acknowledged = TRUE]
                         ELSE alerts
            /\ stack' = SetTop(t, [f EXCEPT !.at = "exit"])
            /\ UNCHANGED oversight_mode
       ELSE IF f.fn = "get_oversight_status"
       THEN /\ stack' = SetTop(t, [f EXCEPT !.at = "exit"])
            /\ UNCHANGED <<oversight_mode, alerts>>
       ELSE \* emergency_shutdown: calls create_alert with self.lock held
            IF f.at = "body"
            THEN /\ oversight_mode' = "emergency"
                 /\ stack' = Call(t, "create_alert", "critical", 0, "return")
                 /\ UNCHANGED alerts
            ELSE /\ stack' = SetTop(t, [f EXCEPT !.at = "exit"])
                 /\ UNCHANGED <<oversight_mode, alerts>>
    /\ UNCHANGED <<running, started, proposals, voting_history, active_policies>>
    /\ UNCHANGED <<satisfaction_scores, public_sentiment, current_state, lock, race0>>
    /\ UNCHANGED <<clockVars, schedVars, engineVars>>

\* the methods SimulationEngine defines
EngineMethods ==
    {"register_callback", "trigger_callbacks", "add_event", "get_active_events",
     "resolve_event", "update", "save_state", "load_state"}
\* what start() starts, in order: the engine, the module threads, the update loop
StartTargets ==
    <<"engine", "PublicServices", "Infrastructure", "CitizenWellbeing", "Governance",
      "AdminOversight", "update_loop">>
\* start(): a call of a method the engine does not define raises AttributeError,
\* which start() does not catch
Start ==
    /\ IF running
       THEN UNCHANGED <<running, started>>
       ELSE /\ running' = TRUE
            /\ started' = IF {"set_state_provider", "start"} \subseteq EngineMethods
                          THEN started \cup Range(StartTargets)
                          ELSE started
    /\ UNCHANGED <<oversight_mode, alerts, proposals, voting_history, active_policies>>
    /\ UNCHANGED <<satisfaction_scores, public_sentiment, current_state, lock, stack, race0>>
    /\ UNCHANGED <<clockVars, schedVars, engineVars>>

\* stop(): self.running = False; self.engine.stop(); join the threads
Stop ==
    /\ running' = FALSE
    /\ started' = IF "stop" \in EngineMethods
                  THEN started \ {"engine", "update_loop"}
                  ELSE started \ {"update_loop"}
    /\ UNCHANGED <<oversight_mode, alerts, proposals, voting_history, active_policies>>
    /\ UNCHANGED <<satisfaction_scores, public_sentiment, current_state, lock, stack, race0>>
    /\ UNCHANGED <<clockVars, schedVars, engineVars>>

\* MunicipalGovernance(voting_threshold, quorum_percentage) as the simulator
\* constructs it, with the signature threshold scaled down
voting_threshold == 3
quorum_percentage == 20
\* Proposal(...): no votes, status "active"
Proposal == [votes_for |-> 0, votes_against |-> 0, status |-> "active"]
total_votes(proposal) == proposal.votes_for + proposal.votes_against
\* approval_rate >= percent, with approval_rate = votes_for / total_votes * 100
\* and 0.0 when there are no votes
ApprovalRateAtLeast(proposal, percent) ==
    IF total_votes(proposal) = 0 THEN 0 >= percent
    ELSE IF total_votes(proposal) > 0
    THEN proposal.votes_for * 100 >= percent * total_votes(proposal)
    ELSE proposal.votes_for * 100 <= percent * total_votes(proposal)
\* (total_votes / voting_threshold) * 100 >= quorum_percentage
QuorumMet(proposal) ==
    total_votes(proposal) * 100 >= quorum_percentage * voting_threshold
\* one pass of the loop of process_proposals over a proposal
Decided(proposal) ==
    IF proposal.status = "active" /\ total_votes(proposal) >= voting_threshold /\ QuorumMet(proposal)
    THEN [proposal EXCEPT !.status = IF ApprovalRateAtLeast(proposal, 50)
                                     THEN "approved" ELSE "rejected"]
    ELSE proposal
\* a thread calls vote(proposal_id, vote_for, votes)
VoteCall(t, proposal_id, vote_for, votes) ==
    /\ stack[t] = <<>>
    /\ stack' = [stack EXCEPT ![t] =
                    <<[Frame("vote", IF vote_for THEN "for" ELSE "against", proposal_id)
                         EXCEPT !.d = votes]>>]
    /\ UNCHANGED <<satisfaction_scores, public_sentiment, current_state, lock, race0>>
    /\ UNCHANGED moduleVars
    /\ UNCHANGED <<clockVars, schedVars, engineVars>>

GovernanceStepVotesOnAnyStatus(t) ==
    /\ stack[t] # <<>>
    /\ Top(t).fn \in GovernanceCalls
    /\ Top(t).at \notin {"acquire", "exit"}
    /\ LET f == Top(t) IN
       IF f.fn = "create_proposal"
       THEN /\ proposals' = Append(proposals, Proposal)
            /\ stack' = SetTop(t, [f EXCEPT !.at = "exit"])
            /\ UNCHANGED <<voting_history, active_policies>>
       ELSE IF f.fn = "vote"
       THEN /\ proposals' =
                  IF f.day \notin 1..Len(proposals)
                  THEN proposals
                  ELSE IF f.key = "for"
                  THEN [proposals EXCEPT ![f.day].votes_for = @ + f.d]
                  ELSE [proposals EXCEPT ![f.day].votes_against = @ + f.d]
            /\ stack' = SetTop(t, [f EXCEPT !.at = "exit"])
            /\ UNCHANGED <<voting_history, active_policies>>
       ELSE IF f.i > Len(proposals)
            THEN /\ stack' = SetTop(t, [f EXCEPT !.at = "exit"])
                 /\ UNCHANGED <<proposals, voting_history, active_policies>>
            ELSE LET proposal == Decided(proposals[f.i]) IN
                 /\ proposals' = [proposals EXCEPT ![f.i] = proposal]
                 /\ voting_history' =
                       IF proposal.status # proposals[f.i].status
                       THEN Append(voting_history,
                                   [proposal_id |-> f.i, outcome |-> proposal.status,
                                    votes_for |-> proposal.votes_for,
                                    votes_against |-> proposal.votes_against])
                       ELSE voting_history
                 /\ active_policies' =
                       IF proposal.status # proposals[f.i].status /\ proposal.status = "approved"
                       THEN Append(active_policies, f.i)
                       ELSE active_policies
                 /\ stack' = SetTop(t, [f EXCEPT !.i = f.i + 1])
    /\ UNCHANGED <<oversight_mode, alerts, running, started>>
    /\ UNCHANGED <<satisfaction_scores, public_sentiment, current_state, lock, race0>>
    /\ UNCHANGED <<clockVars, schedVars, engineVars>>

\* the bodies of MunicipalGovernance's methods, inside "with self.lock:"; of a
\* vote frame key is the side, day the proposal and d the number of votes, and
\* of a process_proposals frame i is the position in list(self.proposals.items())
GovernanceStep(t) ==
    /\ stack[t] # <<>>
    /\ Top(t).fn \in GovernanceCalls
    /\ Top(t).at \notin {"acquire", "exit"}
    /\ LET f == Top(t) IN
       IF f.fn = "create_proposal"
       THEN /\ proposals' = Append(proposals, Proposal)
            /\ stack' = SetTop(t, [f EXCEPT !.at = "exit"])
            /\ UNCHANGED <<voting_history, active_policies>>
       ELSE IF f.fn = "vote"
       THEN /\ proposals' =
                  IF f.day \notin 1..Len(proposals)
                  THEN proposals
                  ELSE IF proposals[f.day].status # "active"
                  THEN proposals
                  ELSE IF f.key = "for"
                  THEN [proposals EXCEPT ![f.day].votes_for = @ + f.d]
                  ELSE [proposals EXCEPT ![f.day].votes_against = @ + f.d]
            /\ stack' = SetTop(t, [f EXCEPT !.at = "exit"])
            /\ UNCHANGED <<voting_history, active_policies>>
       ELSE IF f.i > Len(proposals)
            THEN /\ stack' = SetTop(t, [f EXCEPT !.at = "exit"])
                 /\ UNCHANGED <<proposals, voting_history, active_policies>>
            ELSE LET proposal == Decided(proposals[f.i]) IN
                 /\ proposals' = [proposals EXCEPT ![f.i] = proposal]
                 /\ voting_history' =
                       IF proposal.status # proposals[f.i].status
                       THEN Append(voting_history,
                                   [proposal_id |-> f.i, outcome |-> proposal.status,
                                    votes_for |-> proposal.votes_for,
                                    votes_against |-> proposal.votes_against])
                       ELSE voting_history
                 /\ active_policies' =
                       IF proposal.status # proposals[f.i].status /\ proposal.status = "approved"
                       THEN Append(active_policies, f.i)
                       ELSE active_policies
                 /\ stack' = SetTop(t, [f EXCEPT !.i = f.i + 1])
    /\ UNCHANGED <<oversight_mode, alerts, running, started>>
    /\ UNCHANGED <<satisfaction_scores, public_sentiment, current_state, lock, race0>>
    /\ UNCHANGED <<clockVars, schedVars, engineVars>>

(***************************************************************************)
(* Specifications                                                          *)
(***************************************************************************)
\* the clock alone; the scheduler is constructed and left alone
SpecClockInit == IdleInit /\ EngineInit /\ ClockInit /\ SchedInit(Catalog)
SpecClockNext ==
    \/ TimePasses
    \/ GetCurrentDay
    \/ Pause
    \/ Resume
    \/ \E scale \in ScaleInputs : SetTimeScale(scale)
SpecClock == SpecClockInit /\ [][SpecClockNext]_vars

\* the scheduler alone; the clock is constructed and left alone
HealthCap == 100 + 10 * MaxOverSteps
WithinCap(component_key, damage) ==
    component_key \in Keys => infrastructure[component_key].health - damage <= HealthCap
SpecSchedInit == IdleInit /\ EngineInit /\ ClockInit /\ start_time = 0 /\ time_scale = ScaleUnit /\ SchedInit(Catalog)
SpecSchedNext ==
    \/ \E day \in Ticks : Update(day)
    \/ PreventiveMonitoring
    \/ PlanMaintenance
    \/ \E k \in CallKeys, day \in RepairDays : PerformMaintenance(k, day)
    \/ \E k \in CallKeys, d \in Damages : WithinCap(k, d) /\ HandleSystemDamage(k, d)
    \/ \E k \in CallKeys, day \in RepairDays : EmergencyRepair(k, day)
SpecSched == SpecSchedInit /\ [][SpecSchedNext]_vars

\* planning over three components: aging, damage, monitoring and planning only
SpecPlanInit == IdleInit /\ EngineInit /\ ClockInit /\ start_time = 0 /\ time_scale = ScaleUnit /\ SchedInit(PlanCatalog)
SpecPlanNext ==
    \/ \E day \in Ticks : Update(day)
    \/ \E k \in CallKeys, d \in Damages : d > 0 /\ HandleSystemDamage(k, d)
    \/ PreventiveMonitoring
    \/ PlanMaintenance
SpecPlan == SpecPlanInit /\ [][SpecPlanNext]_vars

\* a scheduler owning one critical component that loses 10 points per tick
ScenarioCatalog == [k \in {"roads"} |-> Component(10, TRUE)]
ScenarioTicks == {0, 3, 5, 8}
SpecScenarioInit ==
    IdleInit /\ EngineInit /\ ClockInit /\ start_time = 0 /\ time_scale = ScaleUnit
        /\ SchedInit(ScenarioCatalog)
SpecScenarioNext ==
    \/ \E day \in ScenarioTicks : Update(day)
    \/ PreventiveMonitoring
    \/ PlanMaintenance
    \/ \E k \in {"roads", "subway"}, day \in ScenarioTicks : PerformMaintenance(k, day)
    \/ \E d \in {10, 40} : HandleSystemDamage("roads", d)
SpecScenario == SpecScenarioInit /\ [][SpecScenarioNext]_vars

\* three threads call into one scheduler at once: a repair, a monitoring pass
\* and an update
RaceThreads == {"repair", "monitor", "update"}
RaceHealths == {40, 60, 100}
SpecRaceInit ==
    /\ EngineInit /\ ClockInit /\ start_time = 0 /\ time_scale = ScaleUnit
    /\ SubsystemsInit
    /\ lock = [l \in Locks |-> "none"]
    /\ \E h \in [DOMAIN Catalog -> RaceHealths] :
          LET infra == [k \in DOMAIN Catalog |->
                           update_status([Catalog[k] EXCEPT !.health = h[k]])]
          IN  \E q \in {<<>>, EnqueueIn(infra, SelectSeq(KeyOrder, LAMBDA k : k \in DOMAIN infra), <<>>)} :
                  /\ infrastructure = infra
                  /\ maintenance_queue = q
                  /\ last_update_day = 0
                  /\ call = [op |-> "init"]
                  /\ ret = "None"
                  /\ report = NoReport
                  /\ anomalies = <<>>
    /\ \E fn \in {"perform_maintenance", "emergency_repair"},
          key \in {"roads", "subway"}, day \in RepairDays, tick \in Ticks :
          /\ stack = [t \in Threads |->
                         CASE t = "repair" -> <<Frame(fn, key, day)>>
                           [] t = "monitor" -> <<Frame("preventive_monitoring", "", 0)>>
                           [] t = "update" -> <<Frame("update", "", tick)>>
                           [] OTHER -> <<>>]
          /\ race0 = [calls |-> RaceThreads,
                      state |-> [infrastructure |-> infrastructure,
                                 maintenance_queue |-> maintenance_queue,
                                 last_update_day |-> last_update_day],
                      fn |-> fn, key |-> key, day |-> day, tick |-> tick]
SpecRaceNext ==
    \E t \in RaceThreads :
        \/ Acquire(t)
        \/ UpdateStep(t)
        \/ MonitoringStep(t)
        \/ RepairStep(t)
        \/ Release(t)
SpecRace == SpecRaceInit /\ [][SpecRaceNext]_vars

\* the simulator's update thread and the wellbeing module's thread, scheduled
\* fairly by the interpreter
SimulatorThreads == {"simulator", "wellbeing"}
SpecSimulatorInit ==
    /\ EngineInit /\ ClockInit /\ start_time = 0 /\ time_scale = ScaleUnit
    /\ SchedInit(Catalog)
    /\ SubsystemsInit
    /\ lock = [l \in Locks |-> "none"]
    /\ stack = [t \in Threads |->
                   CASE t = "simulator" ->
                            <<[Frame("_update_loop", "", 0) EXCEPT !.at = "get_current_day"]>>
                     [] t = "wellbeing" ->
                            <<[Frame("run", "", 0) EXCEPT !.at = "update_wellbeing_metrics"]>>
                     [] OTHER -> <<>>]
    /\ race0 = NoRace
ThreadStep(t) ==
    \/ Acquire(t)
    \/ UpdateStep(t)
    \/ MonitoringStep(t)
    \/ WellbeingStep(t)
    \/ RunStep(t)
    \/ SimulatorStep(t)
    \/ Release(t)
SpecSimulatorNext == \E t \in SimulatorThreads : ThreadStep(t)
SpecSimulator ==
    /\ SpecSimulatorInit
    /\ [][SpecSimulatorNext]_vars
    /\ \A t \in SimulatorThreads : WF_vars(ThreadStep(t))

\* _calculate_overall_health over component maps, the empty one included
HealthSamples == {0, 50, 100}
SpecHealthInit ==
    /\ IdleInit /\ EngineInit /\ ClockInit /\ start_time = 0 /\ time_scale = ScaleUnit
    /\ \E S \in SUBSET Range(KeyOrder) :
          \E h \in [S -> HealthSamples] :
              SchedInit([k \in S |-> update_status([CatalogEntry(k) EXCEPT !.health = h[k]])])
SpecHealthNext ==
    \/ PreventiveMonitoring
    \/ \E k \in CallKeys : HandleSystemDamage(k, 10)
    \/ PlanMaintenance
SpecHealth == SpecHealthInit /\ [][SpecHealthNext]_vars

\* the log holds at most limit events after the draws of a pass
RoomFor(drawn, limit) == Len(events) + Cardinality(drawn) <= limit
\* the engine over its clock: polling, resolution and rescaling
\* arguments of set_time_scale: 1.0 and 1000.0
EngineScales == {10000, 10000000}
SpecEngineInit ==
    IdleInit /\ EngineInit /\ ClockInit /\ start_time = 0 /\ time_scale = 100000 /\ SchedInit(Catalog)
SpecEngineNext ==
    \/ TimePasses
    \/ \E scale \in EngineScales : SetTimeScale(scale)
    \/ \E drawn \in SUBSET Kinds : RoomFor(drawn, MaxLog) /\ EngineUpdate(drawn)
    \/ \E i \in 1..MaxLog : ResolveEvent(i)
SpecEngine == SpecEngineInit /\ [][SpecEngineNext]_vars

\* the log under every call that reads or writes it
SpecLogInit == SpecEngineInit
SpecLogNext ==
    \/ TimePasses
    \/ \E drawn \in {{}, Kinds} : RoomFor(drawn, MaxEvents) /\ EngineUpdate(drawn)
    \/ RoomFor({"public_complaint"}, MaxEvents) /\ AddEvent("public_complaint")
    \/ \E i \in 1..MaxEvents : ResolveEvent(i)
    \/ GetActiveEvents
SpecLog == SpecLogInit /\ [][SpecLogNext]_vars

\* the engine polled for ever: real time passes and update() is called again
\* and again, while an outside caller may or may not resolve events
PollStep == \E drawn \in {{}, Kinds} : RoomFor(drawn, MaxEvents) /\ EngineUpdate(drawn)
SpecPolledNext ==
    \/ TimePasses
    \/ PollStep
    \/ \E i \in 1..MaxEvents : ResolveEvent(i)
SpecPolled ==
    SpecEngineInit /\ [][SpecPolledNext]_vars /\ WF_vars(TimePasses) /\ WF_vars(PollStep)

\* dispatch: registration and polling while real time passes, at time_scale 10.0
SpecDispatchInit == SpecEngineInit
SpecDispatchNext ==
    \/ TimePasses
    \/ \E name \in CallbackNames, callback \in Callbacks : RegisterCallback(name, callback)
    \/ \E drawn \in SUBSET Kinds : RoomFor(drawn, MaxEvents) /\ EngineUpdate(drawn)
SpecDispatch == SpecDispatchInit /\ [][SpecDispatchNext]_vars

\* one thread reads the engine's event log while another writes it
SpecEngineRaceInit == SpecEngineInit
SpecEngineRaceNext ==
    \/ GetActiveEventsCall("reader")
    \/ GetActiveEventsStep("reader")
    \/ GetActiveEventsReturn("reader")
    \/ \E event_type \in Kinds :
          RoomFor({event_type}, MaxEvents) /\ LogWriteCall("writer", "add_event", event_type, 0)
    \/ \E i \in 1..MaxEvents : LogWriteCall("writer", "resolve_event", "", i)
    \/ LogWriteStep("writer")
SpecEngineRace == SpecEngineRaceInit /\ [][SpecEngineRaceNext]_vars

\* the simulator's loop polling the clock, which is paused and resumed and is
\* also read by others (get_detailed_status) while it runs
SpecLoopInit == IdleInit /\ EngineInit /\ ClockInit /\ start_time = 0 /\ SchedInit(Catalog)
SpecLoopNext ==
    \/ TimePasses
    \/ ~paused /\ GetCurrentDay
    \/ Pause
    \/ Resume
    \/ UpdateLoop
SpecLoop == SpecLoopInit /\ [][SpecLoopNext]_vars

\* config.time_scale values handed to the constructor: 0.05, 1.0, 10.0, 1000.0
ConfigScales == {500, 10000, 100000, 10000000}
\* SimulationClock(time_scale) for any configuration value
SpecConfigInit ==
    /\ IdleInit /\ EngineInit /\ SchedInit(Catalog)
    /\ start_time = 0
    /\ now = start_time
    /\ time_scale \in ConfigScales
    /\ current_day = 0
    /\ paused = FALSE
    /\ pause_time = 0
    /\ last_read = NoRead
    /\ last_read_at = start_time
    /\ frozen_read = NoRead
    /\ pause_reads = 0
    /\ ever_paused = FALSE
    /\ paused_total = 0
    /\ clock_call = "init"
SpecConfigNext ==
    \/ TimePasses
    \/ GetCurrentDay
    \/ Pause
    \/ Resume
    \/ \E scale \in ScaleInputs : SetTimeScale(scale)
SpecConfig == SpecConfigInit /\ [][SpecConfigNext]_vars

\* diagnosis over components that age, are damaged and are repaired
SpecDiagnoseInit == SpecSchedInit
SpecDiagnoseNext ==
    \/ \E day \in Ticks : Update(day)
    \/ \E k \in CallKeys : HandleSystemDamage(k, 40)
    \/ \E k \in CallKeys : EmergencyRepair(k, 0)
    \/ DiagnoseAnomalies
SpecDiagnose == SpecDiagnoseInit /\ [][SpecDiagnoseNext]_vars

\* an administrator and an operator (or the oversight loop) use the oversight
\* module at once, scheduled fairly
OversightThreads == {"admin", "operator"}
Severities == {"info", "critical"}
SpecOversightInit == SpecSchedInit
OversightNext(t) ==
    \/ \E severity \in Severities :
          Len(alerts) < MaxAlerts /\ MethodCall(t, "create_alert", severity, 0)
    \/ \E alert_index \in 0..MaxAlerts : MethodCall(t, "acknowledge_alert", "", alert_index)
    \/ MethodCall(t, "get_oversight_status", "", 0)
    \/ t = "admin" /\ MethodCall(t, "emergency_shutdown", "", 0)
    \/ Acquire(t)
    \/ OversightStep(t)
    \/ Release(t)
SpecOversightNext == \E t \in OversightThreads : OversightNext(t)
SpecOversight ==
    /\ SpecOversightInit
    /\ [][SpecOversightNext]_vars
    /\ \A t \in OversightThreads : WF_vars(Acquire(t) \/ OversightStep(t) \/ Release(t))

\* a constructed simulator: start and stop are called while its clock runs and
\* is read and its infrastructure is monitored
SpecStartInit == SpecSchedInit
SpecStartNext ==
    \/ TimePasses
    \/ GetCurrentDay
    \/ \E day \in Ticks : Update(day)
    \/ PreventiveMonitoring
    \/ Start
    \/ Stop
SpecStart == SpecStartInit /\ [][SpecStartNext]_vars

\* updates of an engine with day-change callbacks while its clock is paused,
\* resumed and rescaled
SpecDayChangeInit == SpecEngineInit
SpecDayChangeNext ==
    \/ TimePasses
    \/ \E scale \in EngineScales : SetTimeScale(scale)
    \/ Pause
    \/ Resume
    \/ RegisterCallback("on_day_change", "cb_ok")
    \/ EngineUpdate({})
SpecDayChange == SpecDayChangeInit /\ [][SpecDayChangeNext]_vars

\* an engine on which callbacks are registered under its own names and, as the
\* colony prototype does, under the name on_sol_change
SpecUnknownNameInit == SpecEngineInit
SpecUnknownNameNext ==
    \/ TimePasses
    \/ \E name \in {"on_event", "on_day_change"} : RegisterCallback(name, "cb_ok")
    \/ RegisterCallback("on_sol_change", "_handle_sol_change")
    \/ \E drawn \in {{}, Kinds} : RoomFor(drawn, MaxEvents) /\ EngineUpdate(drawn)
SpecUnknownName == SpecUnknownNameInit /\ [][SpecUnknownNameNext]_vars

\* a citizen (through the API) and the governance loop use the governance module
\* at once: the citizen creates proposals and votes with any integer number of
\* votes on known and unknown ids, the loop processes the proposals
GovernanceThreads == {"citizen", "council"}
VoteSizes == {-1, 2}
GovernanceNext(t) ==
    \/ t = "citizen" /\ Len(proposals) < MaxProposals /\ MethodCall(t, "create_proposal", "", 0)
    \/ \E proposal_id \in 1..(MaxProposals + 1), vote_for \in BOOLEAN, votes \in VoteSizes :
          /\ t = "citizen"
          /\ proposal_id \in 1..Len(proposals) =>
                LET count == IF vote_for THEN proposals[proposal_id].votes_for
                             ELSE proposals[proposal_id].votes_against
                IN  -MaxVotes <= count + votes /\ count + votes <= MaxVotes
          /\ VoteCall(t, proposal_id, vote_for, votes)
    \/ t = "council" /\ MethodCall(t, "process_proposals", "", 0)
    \/ Acquire(t)
    \/ GovernanceStep(t)
    \/ Release(t)
SpecGovernanceInit == SpecSchedInit
SpecGovernanceNext == \E t \in GovernanceThreads : GovernanceNext(t)
SpecGovernance == SpecGovernanceInit /\ [][SpecGovernanceNext]_vars

(***************************************************************************)
(* Claims: the clock                                                       *)
(***************************************************************************)
\* C1: in a run in which the clock is never paused, a get_current_day() taken
\* at a later real time than the previous one returns a value that is not
\* smaller, whatever set_time_scale calls were made in between.
C1_ClockMonotonic ==
    [][(~ever_paused' /\ last_read # NoRead /\ last_read_at' > last_read_at)
          => last_read' >= last_read]_vars

\* C2: when the clock is not paused, get_current_day() returns
\* (now - start_time - all real seconds spent paused) * time_scale / day_duration,
\* after any number of completed pause/resume cycles.
C2_PausedTimeExcluded ==
    [][(GetCurrentDay /\ ~paused)
          => last_read' = (now - start_time - paused_total) * time_scale]_vars

\* C3: between a pause() and the next resume(), every get_current_day() returns
\* the value the first one returned, however much real time has passed and
\* whatever set_time_scale calls were made.
C3_FrozenWhilePaused ==
    (paused /\ pause_reads > 0) => last_read = frozen_read

\* two reads within one pause, the latest after real time has passed since the
\* pause began and in a state where recomputing would give another value
C3_Witness ==
    /\ paused
    /\ pause_reads = 2
    /\ last_read_at > pause_time
    /\ last_read = frozen_read
    /\ ComputeDay # last_read

(***************************************************************************)
(* Claims: the components and the scheduler                                *)
(***************************************************************************)
\* C4: in every reachable state each component's status is the threshold
\* function of its health: optimal if health >= 90, good if >= 70, degraded if
\* >= 50, critical if >= failure_threshold, failed otherwise.
C4_StatusHealthConsistent ==
    \A k \in Keys :
        LET c == infrastructure[k] IN
        /\ c.status = "optimal"  <=> c.health >= 90
        /\ c.status = "good"     <=> (c.health >= 70 /\ c.health < 90)
        /\ c.status = "degraded" <=> (c.health >= 50 /\ c.health < 70)
        /\ c.status = "critical" <=> (c.health >= c.failure_threshold /\ c.health < 50)
        /\ c.status = "failed"   <=> (c.health < c.failure_threshold /\ c.health < 50)

\* after a repair of one component, one component sits exactly on a threshold
\* and another has failed
C4_Witness ==
    /\ call.op \in {"perform_maintenance", "emergency_repair"}
    /\ ret = "True"
    /\ \E k \in Keys : infrastructure[k].health = 70 /\ infrastructure[k].status = "good"
    /\ \E k \in Keys : infrastructure[k].health = 20 /\ infrastructure[k].status = "failed"

\* C5: in every reachable state every component's health is within [0, 100].
C5_HealthBounds ==
    \A k \in Keys : infrastructure[k].health >= 0 /\ infrastructure[k].health <= 100

\* C6: the scheduler's perform_maintenance on a known component never decreases
\* its health: the health becomes min(100, health + 30) if the status was failed
\* and min(100, health + 50) otherwise, last_maintenance becomes the given day,
\* and the call returns true.
C6_MaintenanceRestores ==
    [][\A k \in Keys, day \in RepairDays :
          PerformMaintenance(k, day) =>
             /\ infrastructure'[k].health >= infrastructure[k].health
             /\ infrastructure'[k].health =
                    Min(100, infrastructure[k].health +
                             (IF infrastructure[k].status = "failed" THEN 30 ELSE 50))
             /\ infrastructure'[k].last_maintenance = day
             /\ ret' = "True"]_vars

\* C7: update(day) with a day not after the last effective update changes no
\* component (health, status), not the queue and not the watermark.
C7_IdempotentAging ==
    [][\A day \in Ticks :
          (Update(day) /\ day <= last_update_day) =>
             UNCHANGED <<infrastructure, maintenance_queue, last_update_day>>]_vars

\* a late update has just been made on aged components
C7_Witness ==
    /\ call.op = "update"
    /\ call.tick < last_update_day
    /\ \E k \in Keys : infrastructure[k].health < 100 /\ infrastructure[k].health > 0

\* C8: in every reachable state each identifier occurs at most once in
\* maintenance_queue and every queued identifier is a key of the component map.
C8_QueueNoDuplicates ==
    /\ \A i, j \in 1..Len(maintenance_queue) :
          maintenance_queue[i] = maintenance_queue[j] => i = j
    /\ Range(maintenance_queue) \subseteq Keys

\* a monitoring pass has just run on a queue that held one of the two
\* components below 70, and now holds both
C8_Witness ==
    /\ call.op = "preventive_monitoring"
    /\ Len(maintenance_queue) = 2
    /\ \A k \in Keys : infrastructure[k].health < 70
    /\ infrastructure[maintenance_queue[1]].last_maintenance > 0

\* C9: on a non-empty queue plan_maintenance returns a queued identifier k such
\* that no queued critical component exists when k is non-critical, and no
\* queued component of k's criticality has strictly lower health than k.
C9_PlanPriority ==
    (call.op = "plan_maintenance" /\ maintenance_queue # <<>>) =>
        /\ ret \in Range(maintenance_queue)
        /\ \A j \in Range(maintenance_queue) :
              /\ ~(infrastructure[j].critical /\ ~infrastructure[ret].critical)
              /\ infrastructure[j].critical = infrastructure[ret].critical
                    => infrastructure[j].health >= infrastructure[ret].health

\* the critical component at health 60 chosen over the non-critical at health 10
C9_Witness ==
    /\ call.op = "plan_maintenance"
    /\ ret = "roads"
    /\ infrastructure["roads"].health = 60
    /\ "parks" \in Range(maintenance_queue)
    /\ infrastructure["parks"].health = 10

\* C10: perform_maintenance(id, day) with an unknown id returns false and
\* changes no component, no queue entry and not the watermark; with a known id
\* it returns true, applies the component's maintenance, and id is not in
\* maintenance_queue afterwards.
C10_SchedulerMaintenance ==
    [][\A k \in CallKeys, day \in RepairDays :
          PerformMaintenance(k, day) =>
             IF k \notin Keys
             THEN /\ ret' = "False"
                  /\ UNCHANGED <<infrastructure, maintenance_queue, last_update_day>>
             ELSE /\ ret' = "True"
                  /\ infrastructure'[k].health =
                         Min(100, infrastructure[k].health +
                                  (IF infrastructure[k].status = "failed" THEN 30 ELSE 50))
                  /\ infrastructure'[k].last_maintenance = day
                  /\ \A j \in Keys \ {k} : infrastructure'[j] = infrastructure[j]
                  /\ k \notin Range(maintenance_queue')
                  /\ last_update_day' = last_update_day]_vars

\* an unknown identifier has just been refused while components are queued
C10_Witness ==
    /\ call.op = "perform_maintenance"
    /\ ret = "False"
    /\ Len(maintenance_queue) = 2
    /\ last_update_day > 0


C12_ResolutionNotBeforeCreation ==
    \A i \in 1..Len(events) :
        events[i].resolved => events[i].resolution_time >= events[i].timestamp

\* C13: resolve_event on an event that is already resolved changes nothing of
\* the event: resolved stays TRUE and resolution_time keeps the value of the
\* first resolution.
C13_ResolveIdempotent ==
    [][\A i \in 1..MaxLog :
          (ResolveEvent(i) /\ events[i].resolved) => events' = events]_vars

\* C14: an update() whose clock reading is less than 0.1 day after
\* last_check_day gets an empty list from check_for_events and leaves
\* last_check_day unchanged; a pass that samples moves last_check_day forward
\* by at least 0.1 day, so two sampling passes are at least 0.1 day apart.
C14_SamplingRateLimit ==
    [][\A drawn \in SUBSET Kinds :
          EngineUpdate(drawn) =>
              /\ (10 * (last_read' - last_check_day) < DayDen
                     => new_events' = <<>> /\ last_check_day' = last_check_day)
              /\ (last_check_day' # last_check_day
                     => 10 * (last_check_day' - last_check_day) >= DayDen)]_vars

\* a poll later than the latest sampling pass, but less than 0.1 day later
C14_Witness ==
    /\ ecall.op = "update"
    /\ last_check_day > 0
    /\ last_read > last_check_day
    /\ 10 * (last_read - last_check_day) < DayDen
    /\ new_events = <<>>

(***************************************************************************)
(* Claims: callbacks                                                       *)
(***************************************************************************)
\* C15: update() never raises; every event it generated is appended to the
\* log, and for every new event, in order, every registered on_event callback
\* is invoked exactly once with that event, in registration order, whether or
\* not some callback raises.
C15_OnEventDispatch ==
    [][\A drawn \in SUBSET Kinds :
          EngineUpdate(drawn) =>
              LET cbs == callbacks["on_event"]
                  n == Len(cbs)
                  on_event == SelectSeq(dispatched', LAMBDA c : c.name = "on_event")
              IN  /\ ~ecall'.raised
                  /\ 10 * (last_read' - last_check_day) >= DayDen
                         => Len(new_events') = Cardinality(drawn)
                  /\ events' = events \o new_events'
                  /\ Len(on_event) = n * Len(new_events')
                  /\ \A j \in 1..Len(on_event) :
                         /\ on_event[j].callback = cbs[((j - 1) % n) + 1]
                         /\ on_event[j].arg = new_events'[((j - 1) \div n) + 1]]_vars

\* two events in one pass, dispatched to a raising callback registered first
C15_Witness ==
    /\ ecall.op = "update"
    /\ Len(new_events) = 2
    /\ callbacks["on_event"] = <<"cb_raises", "cb_ok">>
    /\ Len(SelectSeq(dispatched, LAMBDA c : c.name = "on_event")) = 4

\* C16: update() invokes the on_day_change callbacks exactly when the integer
\* part of the day it read exceeds the integer part of the day recorded at the
\* previous boundary; then every registered callback is invoked once, in
\* order, with the new integer day, and the day read becomes the recorded one;
\* otherwise none is invoked and the record is kept.
C16_DayChangeDispatch ==
    [][\A drawn \in SUBSET Kinds :
          EngineUpdate(drawn) =>
              LET cbs == callbacks["on_day_change"]
                  whole == last_read' \div DayDen
                  on_day == SelectSeq(dispatched', LAMBDA c : c.name = "on_day_change")
              IN  IF whole > last_day \div DayDen
                  THEN /\ Len(on_day) = Len(cbs)
                       /\ \A j \in 1..Len(on_day) :
                              on_day[j].callback = cbs[j] /\ on_day[j].arg = [day |-> whole]
                       /\ last_day' = last_read'
                  ELSE on_day = <<>> /\ last_day' = last_day]_vars

\* a boundary dispatched to two callbacks of which the first raises
C16_Witness ==
    /\ ecall.op = "update"
    /\ callbacks["on_day_change"] = <<"cb_raises", "cb_ok">>
    /\ Len(dispatched) >= 2
    /\ dispatched[Len(dispatched)].name = "on_day_change"
    /\ dispatched[Len(dispatched)].arg.day >= 1
    /\ last_day = last_read

(***************************************************************************)
(* Claims: clock controls                                                  *)
(***************************************************************************)
\* C17: after set_time_scale(s) the time_scale is s clamped to [0.1, 100.0]:
\* 0.1 for s below 0.1, 100.0 for s above 100.0, s otherwise; 1000.0 gives
\* 100.0 and 0.0001 gives 0.1.
C17_SetTimeScaleClamps ==
    [][\A scale \in ScaleInputs :
          SetTimeScale(scale) =>
              /\ time_scale' = IF scale < 1000 THEN 1000
                               ELSE IF scale > 1000000 THEN 1000000 ELSE scale
              /\ scale = 10000000 => time_scale' = 1000000
              /\ scale = 1 => time_scale' = 1000]_vars

\* set_time_scale(1000.0) has acted: no other call leaves 100.0
C17_Witness ==
    /\ clock_call = "set_time_scale"
    /\ time_scale = 1000000

\* C18: pause() on a paused clock and resume() on a clock that is not paused
\* change no field of the clock, so every later get_current_day() returns
\* what it would return without the call.
C18_RedundantPauseResume ==
    [][((Pause /\ paused) \/ (Resume /\ ~paused))
          => /\ UNCHANGED <<time_scale, current_day, start_time, paused, pause_time>>
             /\ DayRead' = DayRead]_vars

\* the latest clock call is a pause() made after a read of the paused clock,
\* at a later real time than the pause in force
C18_Witness ==
    /\ clock_call = "pause"
    /\ paused
    /\ pause_reads >= 1
    /\ pause_time < now

(***************************************************************************)
(* Claims: the aggregate                                                   *)
(***************************************************************************)
\* C19: the overall_health of the report is the sum of health * weight over
\* the components divided by the sum of the weights, with weight 2 for a
\* critical component and 1 otherwise; it is 100/3 for a critical component
\* at health 0 with a non-critical one at health 100, and 0 for an empty map.
C19_AggregateWeighting ==
    call.op = "preventive_monitoring" =>
        LET w(k) == IF k \notin Keys THEN 0
                    ELSE IF infrastructure[k].critical THEN 2 ELSE 1
            h(k) == IF k \notin Keys THEN 0 ELSE infrastructure[k].health
            weights == w("roads") + w("bridges") + w("parks")
            sum == h("roads") * w("roads") + h("bridges") * w("bridges")
                      + h("parks") * w("parks")
            overall == report.overall_health
        IN  /\ overall.den > 0
            /\ IF Keys = {}
               THEN overall.num = 0
               ELSE overall.num * weights = sum * overall.den
            /\ (Keys = {"roads", "parks"} /\ h("roads") = 0 /\ h("parks") = 100)
                  => 3 * overall.num = 100 * overall.den

\* the report over one critical component at 0 and one non-critical at 100
C19_Witness ==
    /\ call.op = "preventive_monitoring"
    /\ Keys = {"roads", "parks"}
    /\ infrastructure["roads"].health = 0
    /\ infrastructure["parks"].health = 100
    /\ report.overall_health = [num |-> 100, den |-> 3]

(***************************************************************************)
(* Claims: the scenario                                                    *)
(***************************************************************************)
\* C20: a scheduler whose one component is critical, at health 100, with
\* degradation rate 10 per tick and failure threshold 30: update(3) on the new
\* scheduler gives health 70 and status good; update(8) on that state gives
\* health 20 and status failed; perform_maintenance on that state gives
\* health 50 and status degraded.
C20_Scenario ==
    [][LET c == infrastructure["roads"]
           after == infrastructure'["roads"]
       IN  /\ (/\ call.op = "init" /\ c.health = 100 /\ c.critical
                /\ c.degradation_rate = 10 /\ c.failure_threshold = 30
                /\ Update(3))
                  => after.health = 70 /\ after.status = "good"
           /\ (/\ c.health = 70 /\ c.status = "good" /\ last_update_day = 3
                /\ Update(8))
                  => after.health = 20 /\ after.status = "failed"
           /\ (/\ c.health = 20 /\ c.status = "failed" /\ last_update_day = 8
                /\ \E day \in ScenarioTicks : PerformMaintenance("roads", day))
                  => /\ after.health = 50 /\ after.status = "degraded"
                     /\ ret' = "True"]_vars

\* the end of the scenario: repaired from failed at tick 8, never repaired before
C20_Witness ==
    /\ call.op = "perform_maintenance"
    /\ ret = "True"
    /\ last_update_day = 8
    /\ infrastructure["roads"].health = 50
    /\ infrastructure["roads"].status = "degraded"
    /\ maintenance_queue = <<>>

(***************************************************************************)
(* Claims: outcomes of the scheduler's entrypoints                         *)
(***************************************************************************)
\* C21: perform_maintenance, emergency_repair and handle_system_damage each
\* return an explicit success or failure, and for an identifier that is not a
\* component they return the failure.
C21_ExplicitOutcome ==
    [][/\ \A k \in CallKeys, day \in RepairDays :
             PerformMaintenance(k, day) =>
                 ret' \in {"True", "False"} /\ (k \notin Keys => ret' = "False")
       /\ \A k \in CallKeys, day \in RepairDays :
             EmergencyRepair(k, day) =>
                 ret' \in {"True", "False"} /\ (k \notin Keys => ret' = "False")
       /\ \A k \in CallKeys, d \in Damages :
             HandleSystemDamage(k, d) =>
                 ret' \in {"True", "False"} /\ (k \notin Keys => ret' = "False")]_vars

(***************************************************************************)
(* Claims: the event log under all its calls                               *)
(***************************************************************************)
\* C22: no call shortens the log or moves or replaces an event of it (an
\* event keeps its position, kind and timestamp); update() appends exactly the
\* events it returns, once each and in generation order; get_active_events()
\* leaves the log as it is.
C22_LogAppendOnly ==
    [][/\ Len(events') >= Len(events)
       /\ \A i \in 1..Len(events) :
             /\ events'[i].event_type = events[i].event_type
             /\ events'[i].timestamp = events[i].timestamp
       /\ \A drawn \in SUBSET Kinds :
             EngineUpdate(drawn) => events' = events \o new_events'
       /\ GetActiveEvents => events' = events]_vars

\* a scan of a log of two events of which the older one is resolved
C22_Witness ==
    /\ ecall.op = "get_active_events"
    /\ Len(events) = 2
    /\ events[1].resolved
    /\ events[1].timestamp < events[2].timestamp
    /\ new_events = <<events[2]>>

(***************************************************************************)
(* Claims: monitoring, queue membership, planning                          *)
(***************************************************************************)
\* C27: when preventive_monitoring() returns, every component with health
\* below 70 is in maintenance_queue, the components queued before keep their
\* positions, and the report holds the overall health and every component's
\* health, status and critical flag.
C27_MonitoringPostcondition ==
    [][PreventiveMonitoring =>
          /\ \A k \in Keys :
                infrastructure'[k].health < 70 => k \in Range(maintenance_queue')
          /\ Len(maintenance_queue') >= Len(maintenance_queue)
          /\ SubSeq(maintenance_queue', 1, Len(maintenance_queue)) = maintenance_queue
          /\ DOMAIN report'.systems = Keys
          /\ \A k \in Keys :
                report'.systems[k] = [health |-> infrastructure[k].health,
                                      status |-> infrastructure[k].status,
                                      critical |-> infrastructure[k].critical]
          /\ report'.overall_health =
                 [num |-> 2 * infrastructure["roads"].health + infrastructure["parks"].health,
                  den |-> 3]]_vars

\* a component repaired at a later day and still below 70 has been queued
\* again, behind the one that was waiting
C27_Witness ==
    /\ call.op = "preventive_monitoring"
    /\ Len(maintenance_queue) = 2
    /\ infrastructure[maintenance_queue[2]].last_maintenance > 0
    /\ infrastructure[maintenance_queue[2]].health < 70
    /\ report.systems[maintenance_queue[2]].health < 70

\* C28: an identifier leaves maintenance_queue only by a perform_maintenance or
\* emergency_repair on it that returns true, and every queued component has
\* health below 70.
C28_QueueMembership ==
    [][/\ \A k \in Range(maintenance_queue) \ Range(maintenance_queue') :
             /\ ret' = "True"
             /\ \E day \in RepairDays :
                    PerformMaintenance(k, day) \/ EmergencyRepair(k, day)
       /\ \A k \in Range(maintenance_queue') : infrastructure'[k].health < 70]_vars

\* C29: plan_maintenance() changes no component, not the queue and not the
\* watermark; it returns None exactly when the queue is empty and otherwise
\* an identifier that is in the queue.
C29_PlanAdvisory ==
    [][PlanMaintenance =>
          /\ UNCHANGED <<infrastructure, maintenance_queue, last_update_day>>
          /\ ret' = "None" <=> maintenance_queue = <<>>
          /\ maintenance_queue # <<>> => ret' \in Range(maintenance_queue)]_vars

\* the component returned is the second of the queue, and both are still queued
C29_Witness ==
    /\ call.op = "plan_maintenance"
    /\ ret = "roads"
    /\ maintenance_queue = <<"parks", "roads">>

SerialOrders ==
    {<<"r", "m", "u">>, <<"r", "u", "m">>, <<"m", "r", "u">>,
     <<"m", "u", "r">>, <<"u", "r", "m">>, <<"u", "m", "r">>}
SerialCall(c, st) ==
    CASE c = "r" -> SerialRepair(st, race0.fn, race0.key, race0.day)
      [] c = "m" -> SerialMonitoring(st)
      [] c = "u" -> SerialUpdate(st, race0.tick)
SerialOutcomes ==
    {SerialCall(o[3], SerialCall(o[2], SerialCall(o[1], race0.state))) : o \in SerialOrders}
RaceDone == race0.calls # {} /\ \A t \in race0.calls : stack[t] = <<>>

\* C23: when perform_maintenance(id) or emergency_repair(id) races with
\* preventive_monitoring() and update(tick), the component map, the queue and
\* the last update day left behind are those of some serial order of the three
\* calls, and the queue never holds an identifier twice.
C23_RaceIsSerial ==
    /\ RaceDone =>
           [infrastructure |-> infrastructure,
            maintenance_queue |-> maintenance_queue,
            last_update_day |-> last_update_day] \in SerialOutcomes
    /\ \A i, j \in 1..Len(maintenance_queue) :
           maintenance_queue[i] = maintenance_queue[j] => i = j
\* the three calls have returned, the repair of roads last: roads, below 70 at
\* the start, is repaired and off the queue, parks was queued by monitoring
C23_Witness ==
    /\ RaceDone
    /\ race0.key = "roads"
    /\ race0.state.maintenance_queue = <<>>
    /\ race0.state.infrastructure["roads"].health < 70
    /\ call.op = race0.fn
    /\ infrastructure["roads"].health >= 70
    /\ maintenance_queue = <<"parks">>

InCall(t, fn) == \E i \in 1..Len(stack[t]) : stack[t][i].fn = fn

\* C24: CitizenWellbeing.get_status() terminates under every interleaving with
\* the wellbeing loop: a thread that has entered get_status eventually leaves
\* it, so that _update_state, which calls it, completes.
C24_GetStatusTerminates ==
    \A t \in Threads : InCall(t, "get_status") ~> ~InCall(t, "get_status")

HasLock(fn) == fn \in InfrastructureCalls \cup WellbeingCalls \cup {"_update_state"}
Holds(frame) == HasLock(frame.fn) /\ frame.at # "acquire"

\* C25: no thread holds two locks at once, and a call made while a lock is
\* held stays inside the subsystem that owns the lock.
C25_LockScope ==
    \A t \in Threads :
        /\ \A l1, l2 \in Locks : lock[l1] = t /\ lock[l2] = t => l1 = l2
        /\ \A i \in 2..Len(stack[t]) :
               Holds(stack[t][i]) => LockOf(stack[t][i - 1].fn) = LockOf(stack[t][i].fn)

\* C26: every access to the engine's event log happens while the accessing
\* thread holds a lock owned by the engine, so that the list a concurrent
\* get_active_events returns is the set of unresolved events of the log as it
\* was wholly before or wholly after each add_event and resolve_event.
C26_LogLockGuarded ==
    \A t \in Threads :
        (stack[t] # <<>> /\ Top(t).fn \in EngineCalls) =>
            /\ \E l \in EngineLocks : lock[l] = t
            /\ Top(t).fn = "get_active_events" /\ Top(t).at = "exit" =>
                   Top(t).acc \in race0.seen

(***************************************************************************)
(* Claims: the simulator, oversight and governance                         *)
(***************************************************************************)
\* C31 as stated: while the clock is paused, every pass of the simulator loop
\* leaves every component's health and status and the watermark unchanged.
C31_PauseStopsAging ==
    [][paused /\ paused' => UNCHANGED <<infrastructure, last_update_day>>]_vars
\* C31: within one pause, once the loop has polled the paused clock, every
\* further pass leaves every component's health and status and the watermark
\* unchanged (the first pass may still age the components up to the frozen day).
C31_PauseStopsAgingAfterFirstPoll ==
    [][paused /\ paused' /\ pause_reads >= 1
          => UNCHANGED <<infrastructure, last_update_day>>]_vars
\* the loop has polled the paused clock twice, an hour or more into the pause,
\* after ageing took place
C31_Witness ==
    /\ paused
    /\ pause_reads = 2
    /\ now > pause_time
    /\ call.op = "update"
    /\ last_update_day > 0
    /\ infrastructure["roads"].health < 100

\* C32: in every reachable state of a SimulationClock, the state right after
\* construction from any configuration value included, time_scale is within
\* [0.1, 100.0].
C32_ScaleInRange == MinScale <= time_scale /\ time_scale <= MaxScale

\* C33: emergency_repair(id, tick) for a known id sets health to
\* min(100, health + 70) whatever the prior status, records last_maintenance =
\* tick, recomputes the status, removes id from maintenance_queue (the other
\* entries keep their order) and returns true; for an unknown id it returns
\* false and changes no component, no queue entry and not the watermark.
C33_EmergencyRepair ==
    [][\A k \in CallKeys, day \in RepairDays :
          EmergencyRepair(k, day) =>
             IF k \notin Keys
             THEN /\ ret' = "False"
                  /\ UNCHANGED <<infrastructure, maintenance_queue, last_update_day>>
             ELSE /\ ret' = "True"
                  /\ infrastructure'[k].health = Min(100, infrastructure[k].health + 70)
                  /\ infrastructure'[k].last_maintenance = day
                  /\ infrastructure'[k].status =
                         StatusOf(infrastructure'[k].health,
                                  infrastructure[k].failure_threshold)
                  /\ \A j \in Keys \ {k} : infrastructure'[j] = infrastructure[j]
                  /\ maintenance_queue' =
                         SelectSeq(maintenance_queue, LAMBDA q : q # k)
                  /\ last_update_day' = last_update_day]_vars
\* a failed, queued component at health 0 has just been repaired to 70 and left
\* the queue, the other queued component stayed
C33_Witness ==
    /\ call.op = "emergency_repair"
    /\ ret = "True"
    /\ infrastructure["roads"].health = 70
    /\ infrastructure["roads"].last_maintenance = MaxTick
    /\ infrastructure["roads"].status = "good"
    /\ maintenance_queue = <<"parks">>

Position(k) == CHOOSE i \in 1..Len(KeyOrder) : KeyOrder[i] = k
Anomalous(component) ==
    \/ component.status \in {"critical", "failed"}
    \/ component.status = "degraded" /\ component.critical

\* C34: diagnose_anomalies returns exactly one record for each component whose
\* status is critical (severity high), failed (severity critical) or degraded
\* with the critical flag set (severity medium) and none for any other, in the
\* component map's iteration order; the stored list is replaced by each call,
\* and no component, queue entry or watermark changes.
C34_DiagnoseAnomalies ==
    [][DiagnoseAnomalies =>
          /\ \A k \in Keys :
                Cardinality({i \in 1..Len(anomalies') : anomalies'[i].component = k})
                    = IF Anomalous(infrastructure[k]) THEN 1 ELSE 0
          /\ \A i \in 1..Len(anomalies') :
                LET a == anomalies'[i]
                    c == infrastructure[a.component]
                IN  /\ a.component \in Keys
                    /\ a.severity = IF c.status = "critical" THEN "high"
                                    ELSE IF c.status = "failed" THEN "critical"
                                    ELSE "medium"
          /\ \A i, j \in 1..Len(anomalies') :
                i < j => Position(anomalies'[i].component) < Position(anomalies'[j].component)
          /\ UNCHANGED <<infrastructure, maintenance_queue, last_update_day>>]_vars
\* a diagnosis has just returned two records, for a degraded critical component
\* and a failed one, after ageing
C34_Witness ==
    /\ call.op = "diagnose_anomalies"
    /\ Len(anomalies) = 2
    /\ anomalies[1].component = "roads" /\ anomalies[1].severity = "medium"
    /\ anomalies[2].component = "parks" /\ anomalies[2].severity = "critical"
    /\ last_update_day > 0

SchedulerState ==
    [infrastructure |-> infrastructure, maintenance_queue |-> maintenance_queue,
     last_update_day |-> last_update_day]

\* C35: for ticks t1 <= t2 above the watermark, update(t1) followed by
\* update(t2) leaves every component with the health and status (and the
\* scheduler with the watermark) that a single update(t2) leaves, also when the
\* health is clamped at 0; an effective update(tick) sets each health to
\* max(0, health - degradation_rate * (tick - watermark)) and the watermark to tick.
C35_AgingAdditive ==
    [][\A t2 \in Ticks :
          Update(t2) =>
             /\ [infrastructure |-> infrastructure', maintenance_queue |-> maintenance_queue',
                 last_update_day |-> last_update_day'] = SerialUpdate(SchedulerState, t2)
             /\ t2 > last_update_day =>
                   /\ last_update_day' = t2
                   /\ \A k \in Keys :
                         /\ infrastructure'[k].health =
                               Max(0, infrastructure[k].health -
                                      infrastructure[k].degradation_rate * (t2 - last_update_day))
                         /\ infrastructure'[k].status =
                               StatusOf(infrastructure'[k].health,
                                        infrastructure[k].failure_threshold)
                   /\ \A t1 \in Ticks :
                         (last_update_day < t1 /\ t1 <= t2) =>
                            SerialUpdate(SerialUpdate(SchedulerState, t1), t2) =
                               [infrastructure |-> infrastructure',
                                maintenance_queue |-> maintenance_queue',
                                last_update_day |-> last_update_day']]_vars
\* the second of two effective updates has just run: the components were aged
\* to the first tick, then to the last one, where both are clamped at 0
C35_Witness ==
    /\ call.op = "update"
    /\ call.tick = MaxTick
    /\ last_update_day = MaxTick
    /\ \A k \in Keys : infrastructure[k].health = 0 /\ infrastructure[k].status = "failed"
    /\ \A k \in Keys : infrastructure[k].last_maintenance = 0

\* C36: AdministratorOversight.emergency_shutdown(reason) always terminates: a
\* thread that has entered it eventually returns from it, with oversight_mode
\* set to emergency, an unacknowledged critical alert appended and the module
\* lock released.
C36_EmergencyShutdownTerminates ==
    \A t \in Threads :
        InCall(t, "emergency_shutdown") ~>
            (/\ ~InCall(t, "emergency_shutdown")
             /\ oversight_mode = "emergency"
             /\ \E i \in 1..Len(alerts) :
                   alerts[i].severity = "critical" /\ ~alerts[i].acknowledged
             /\ lock["oversight"] # t)

\* C37: simulator start is all-or-nothing: whenever running is true, the
\* engine, every module thread and the update loop have been started; a start()
\* that raises part-way leaves running false.
C37_StartAllOrNothing == running => started = Range(StartTargets)

\* C38: over any sequence of engine updates, with pause, resume and
\* set_time_scale calls in between, the integers passed to the day-change
\* callbacks are strictly increasing: each delivered day number is larger than
\* the one delivered before it (kept in _last_day, which no step moves back),
\* and one update delivers to each callback at most once.
C38_DayChangeIncreasing ==
    [][/\ \A drawn \in SUBSET Kinds :
             EngineUpdate(drawn) =>
                LET on_day == SelectSeq(dispatched', LAMBDA c : c.name = "on_day_change") IN
                /\ \A i \in 1..Len(on_day) :
                      /\ on_day[i].arg.day > IntPart(last_day)
                      /\ on_day[i].arg.day = IntPart(last_day')
                /\ Len(on_day) <= Len(callbacks["on_day_change"])
       /\ IntPart(last_day') >= IntPart(last_day)]_vars
\* an update has just found the clock, paused once and rescaled, on an earlier
\* day than the last one delivered, and delivered nothing
C38_Witness ==
    /\ ecall.op = "update"
    /\ callbacks["on_day_change"] # <<>>
    /\ IntPart(last_day) >= 2
    /\ IntPart(last_read) < IntPart(last_day)
    /\ dispatched = <<>>
    /\ ever_paused

\* C39: register_callback with a name outside on_event, on_day_change and
\* on_state_update changes no callback list (and nothing else of the engine)
\* and raises nothing, and no step ever invokes a callback registered under
\* such a name.
C39_UnknownNameIgnored ==
    [][/\ RegisterCallback("on_sol_change", "_handle_sol_change") =>
             /\ callbacks' = callbacks
             /\ ~ecall'.raised
             /\ UNCHANGED <<events, last_check_day, last_day>>
       /\ DOMAIN callbacks' = {"on_event", "on_day_change", "on_state_update"}
       /\ \A i \in 1..Len(dispatched') :
             /\ dispatched'[i].callback # "_handle_sol_change"
             /\ dispatched'[i].name \in {"on_event", "on_day_change"}]_vars
\* on an engine that has callbacks for events and day changes and has already
\* delivered a day change and logged events, a registration under on_sol_change
\* has just returned
C39_Witness ==
    /\ ecall.op = "register_callback"
    /\ ecall.name = "on_sol_change"
    /\ callbacks["on_day_change"] # <<>>
    /\ callbacks["on_event"] # <<>>
    /\ IntPart(last_day) >= 1
    /\ events # <<>>

\* the entries of voting_history about a proposal
HistoryOf(history, proposal_id) ==
    SelectSeq(history, LAMBDA entry : entry.proposal_id = proposal_id)

\* C40: a proposal is decided at most once: its status changes only from
\* active to approved or rejected, only in a step of process_proposals and only
\* with total votes at or above voting_threshold, approved exactly when
\* votes_for >= votes_against; a proposal that is not active keeps its counts and
\* status under every step of vote, create_proposal and process_proposals of any
\* thread; and after every step a decided proposal has exactly one
\* voting_history entry (with its outcome) and an active one has none.
C40_DecidedAtMostOnce ==
    [][/\ Len(proposals') >= Len(proposals)
       /\ \A id \in 1..Len(proposals) :
             /\ proposals'[id].status # proposals[id].status =>
                   /\ proposals[id].status = "active"
                   /\ proposals'[id].status \in {"approved", "rejected"}
                   /\ \E t \in Threads :
                         /\ stack[t] # <<>>
                         /\ Top(t).fn = "process_proposals"
                         /\ Top(t).at = "body"
                         /\ lock["governance"] = t
                   /\ total_votes(proposals[id]) >= voting_threshold
                   /\ proposals'[id].status = "approved" <=>
                         proposals[id].votes_for >= proposals[id].votes_against
                   /\ proposals'[id].votes_for = proposals[id].votes_for
                   /\ proposals'[id].votes_against = proposals[id].votes_against
             /\ proposals[id].status # "active" => proposals'[id] = proposals[id]
       /\ \A id \in 1..Len(proposals') :
             LET entries == HistoryOf(voting_history', id) IN
             IF proposals'[id].status = "active"
             THEN entries = <<>>
             ELSE /\ Len(entries) = 1
                  /\ entries[1].outcome = proposals'[id].status]_vars
\* a proposal has been rejected, and afterwards a vote that takes a vote against
\* it back, which would have tied the counts, has run its body
C40_Witness ==
    /\ Len(voting_history) = 1
    /\ voting_history[1].outcome = "rejected"
    /\ \E t \in Threads :
          /\ stack[t] # <<>>
          /\ Top(t).fn = "vote"
          /\ Top(t).at = "exit"
          /\ Top(t).key = "against"
          /\ Top(t).day \in 1..Len(proposals)
          /\ proposals[Top(t).day].status = "rejected"
          /\ proposals[Top(t).day].votes_against + Top(t).d = proposals[Top(t).day].votes_for
====
